---- MODULE Spec2Model ----
(***************************************************************************)
(* cube-alchemy: the analytics definition compiler (metrics, computed      *)
(* metrics, queries, dependency index) and the schema-graph engine         *)
(* (relationships, path finding, trajectories, cycle detection, load).     *)
(***************************************************************************)
EXTENDS Integers, Sequences, FiniteSets, TLC

VARIABLES
    metrics,            \* Hypercube.metrics: the names of the defined base metrics
    metric_data,        \* the Metric objects: name -> columns, columns_indexes
    computed_metrics,   \* Hypercube.computed_metrics: name -> expression
    queries,            \* Hypercube.queries: name -> compiled descriptor
    dep_index,          \* Hypercube._dep_index: edges <<source, kind, dependent>>
    rename_original_shared_columns,  \* the constructor's flag
    tables,             \* Hypercube.tables: the frames in insertion order
    rows,               \* the rows of each frame of Hypercube.tables
    link_tables,        \* Hypercube.link_tables: the names in insertion order
    link_table_keys,    \* Hypercube.link_table_keys
    relationships,      \* Hypercube.relationships: (t1, t2) -> (key1, key2)
    relationships_raw,  \* Hypercube.relationships_raw
    column_to_table,    \* Hypercube.column_to_table
    single_table_base,  \* Hypercube._single_table_base, NoTable for None
    is_cyclic,          \* Hypercube.is_cyclic: <<flag, path>>
    context_states,     \* Hypercube.context_states: name -> columns of the frame
    last,               \* the last call made and how it ended
    ops,                \* number of calls made so far
    limit               \* number of calls explored

registries == <<metrics, metric_data, computed_metrics, queries, dep_index>>

load_state == <<tables, rows, link_tables, link_table_keys, relationships_raw, column_to_table,
           single_table_base, is_cyclic, context_states>>

engine == <<rename_original_shared_columns, relationships, load_state>>

vars == <<registries, engine, last, ops, limit>>

----------------------------------------------------------------------------
(* Bounds and input domains *)

MaxOps == 3
MaxDefineOps == 4
MaxChainOps == 4
MaxGraphOps == 4
MaxTargets == 3
MaxLoads == 2

Names == {"A", "B", "C"}
Tokens == Names \cup {"D"}
QueryNames == {"Q1", "Q2"}

\* sorted() over the names the model uses
SortedTokens == <<"A", "B", "C", "D">>

----------------------------------------------------------------------------
(* Sequence helpers *)

Range(s) == {s[i] : i \in 1..Len(s)}

RECURSIVE Dedup(_)
\* keeps the first occurrence of each element: "if x not in acc: acc.append(x)"
Dedup(s) ==
    IF s = <<>> THEN <<>>
    ELSE LET front == Dedup(SubSeq(s, 1, Len(s) - 1))
             x == s[Len(s)]
         IN IF x \in Range(front) THEN front ELSE Append(front, x)

RECURSIVE ConcatAll(_)
ConcatAll(ss) == IF ss = <<>> THEN <<>> ELSE Head(ss) \o ConcatAll(Tail(ss))

IndexOf(s, x) == CHOOSE i \in 1..Len(s) : s[i] = x /\ \A j \in 1..(i - 1) : s[j] # x

Sorted(S) == SelectSeq(SortedTokens, LAMBDA t : t \in S)

----------------------------------------------------------------------------
(* Expressions: a sequence of lexical items, a bracketed reference [name]  *)
(* or any other text.  The empty sequence is the empty string.             *)

Ref(n) == [kind |-> "ref", text |-> n]
Lit(t) == [kind |-> "lit", text |-> t]

ExtractColumns(e) ==
    LET refs == SelectSeq(e, LAMBDA it : it.kind = "ref")
    IN [i \in 1..Len(refs) |-> refs[i].text]

NoHaving == <<>>

----------------------------------------------------------------------------
(* Finite maps (Python dicts whose order plays no role) *)

EmptyMap == [x \in {} |-> TRUE]
Put(f, k, v) == [x \in DOMAIN f \cup {k} |-> IF x = k THEN v ELSE f[x]]
Drop(f, k) == [x \in DOMAIN f \ {k} |-> f[x]]

----------------------------------------------------------------------------
(* define_query: parameters and compilation *)

MkParams(dims, ms, cms, hv, st) ==
    [dimensions |-> dims, metrics |-> ms, computed_metrics |-> cms,
     having |-> hv, sort |-> st,
     drop_null_dimensions |-> FALSE, drop_null_metric_results |-> FALSE]

NoParams == MkParams(<<>>, <<>>, <<>>, NoHaving, <<>>)

\* ComputedMetric.columns of a defined computed metric
Columns(CM, n) == ExtractColumns(CM[n])

HavingColumns(p) == IF p.having # NoHaving THEN ExtractColumns(p.having) ELSE <<>>

SortColumns(p) == [i \in 1..Len(p.sort) |-> p.sort[i][1]]

\* the columns of the requested computed metrics that exist, in request order
RequestedColumns(CM, p) ==
    ConcatAll([i \in 1..Len(p.computed_metrics) |->
        IF p.computed_metrics[i] \in DOMAIN CM
        THEN Columns(CM, p.computed_metrics[i]) ELSE <<>>])

\* the hidden metrics without the test "col not in hidden_metrics"
HiddenMetricsRepeated(M, CM, p) ==
    SelectSeq(RequestedColumns(CM, p) \o HavingColumns(p) \o SortColumns(p),
              LAMBDA c : c \in M /\ c \notin Range(p.metrics))

HiddenMetrics(M, CM, p) ==
    Dedup(SelectSeq(RequestedColumns(CM, p) \o HavingColumns(p) \o SortColumns(p),
                    LAMBDA c : c \in M /\ c \notin Range(p.metrics)))

HiddenComputedMetrics(CM, p) ==
    Dedup(SelectSeq(RequestedColumns(CM, p) \o HavingColumns(p) \o SortColumns(p),
                    LAMBDA c : c \in DOMAIN CM /\ c \notin Range(p.computed_metrics)))

AllCmNames(CM, p) == Dedup(p.computed_metrics \o HiddenComputedMetrics(CM, p))

\* build_cm_dependencies(all_cm_names)
BuildCmDependencies(CM, names) ==
    [n \in {m \in Range(names) : m \in DOMAIN CM} |->
        SelectSeq(Columns(CM, n), LAMBDA c : c \in DOMAIN CM)]

NoNode == ""

RECURSIVE Visit(_, _, _)
RECURSIVE VisitEach(_, _, _)
\* visit(node): st carries temp_mark, perm_mark, computed_metrics_ordered and
\* the node named by the ValueError, once raised
Visit(node, deps, st) ==
    IF st.cycle # NoNode THEN st
    ELSE IF node \in st.perm THEN st
    ELSE IF node \in st.temp THEN [st EXCEPT !.cycle = node]
    ELSE LET marked == [st EXCEPT !.temp = @ \cup {node}]
             below == VisitEach(IF node \in DOMAIN deps THEN deps[node] ELSE <<>>,
                                deps, marked)
         IN IF below.cycle # NoNode THEN below
            ELSE [below EXCEPT !.temp = @ \ {node},
                               !.perm = @ \cup {node},
                               !.ordered = IF node \in Range(@) THEN @
                                           ELSE Append(@, node)]

VisitEach(nodes, deps, st) ==
    IF nodes = <<>> THEN st
    ELSE VisitEach(Tail(nodes), deps, Visit(Head(nodes), deps, st))

TopoSort(CM, p) ==
    VisitEach(AllCmNames(CM, p), BuildCmDependencies(CM, AllCmNames(CM, p)),
              [temp |-> {}, perm |-> {}, ordered |-> <<>>, cycle |-> NoNode])

AllUsedColumns(CM, p) ==
    Range(p.metrics) \cup Range(p.computed_metrics) \cup Range(RequestedColumns(CM, p))
        \cup Range(HavingColumns(p)) \cup Range(SortColumns(p))

\* the missing names without the test against get_dimensions()
MissingColumnNamesNoDimensions(M, CM, dims, p) ==
    Sorted({n \in AllUsedColumns(CM, p) : n \notin M /\ n \notin DOMAIN CM})

MissingColumnNames(M, CM, dims, p) ==
    Sorted({n \in AllUsedColumns(CM, p) :
                n \notin M /\ n \notin DOMAIN CM /\ n \notin dims})

\* the dict stored in self.queries[name]
Descriptor(M, CM, dims, p) ==
    [dimensions |-> p.dimensions,
     metrics |-> p.metrics,
     computed_metrics |-> p.computed_metrics,
     having |-> p.having,
     having_columns |-> HavingColumns(p),
     sort |-> p.sort,
     hidden_metrics |-> HiddenMetrics(M, CM, p),
     hidden_computed_metrics |-> HiddenComputedMetrics(CM, p),
     computed_metrics_ordered |-> TopoSort(CM, p).ordered,
     drop_null_dimensions |-> p.drop_null_dimensions,
     drop_null_metric_results |-> p.drop_null_metric_results,
     missing_column_names |-> MissingColumnNames(M, CM, dims, p)]

\* the parameters _refresh_queries_dependent_on reads back from a descriptor
StoredParams(d) ==
    [dimensions |-> d.dimensions, metrics |-> d.metrics,
     computed_metrics |-> d.computed_metrics, having |-> d.having, sort |-> d.sort,
     drop_null_dimensions |-> d.drop_null_dimensions,
     drop_null_metric_results |-> d.drop_null_metric_results]

----------------------------------------------------------------------------
(* DependencyIndex: the edges <<source, kind, dependent>> *)

IndexRemoveQuery(idx, name) == {e \in idx : ~(e[2] = "query" /\ e[3] = name)}
IndexGet(idx, src) == {<<e[2], e[3]>> : e \in {x \in idx : x[1] = src}}

\* every order in which list(index.get(name)) may list the dependents
Orders(S) == {s \in [1..Cardinality(S) -> S] : Range(s) = S}

\* dep_sources without the hidden metrics and hidden computed metrics
DepSourcesWithoutHidden(M, CM, dims, p) ==
    Range(p.metrics) \cup Range(p.computed_metrics)
        \cup Range(MissingColumnNames(M, CM, dims, p))

\* dep_sources of define_query
DepSources(M, CM, dims, p) ==
    Range(p.metrics) \cup Range(HiddenMetrics(M, CM, p))
        \cup Range(p.computed_metrics) \cup Range(HiddenComputedMetrics(CM, p))
        \cup {c \in Range(HavingColumns(p)) : c \in M \/ c \in DOMAIN CM}
        \cup {c \in Range(SortColumns(p)) : c \in M \/ c \in DOMAIN CM}
        \cup Range(MissingColumnNames(M, CM, dims, p))

\* a define_query that registers, for the unresolved names, those of the
\* descriptor stored before the call instead of the ones just computed
StoreQueryStaleMissing(M, CM, dims, name, p, Q, idx) ==
    [queries |-> Put(Q, name, Descriptor(M, CM, dims, p)),
     dep |-> IndexRemoveQuery(idx, name)
                \cup {<<src, "query", name>> :
                        src \in (DepSources(M, CM, dims, p)
                                    \ Range(MissingColumnNames(M, CM, dims, p)))
                                \cup (IF name \in DOMAIN Q
                                      THEN Range(Q[name].missing_column_names)
                                      ELSE {})}]

\* a define_query that adds the new edges without remove_query(name) first
StoreQueryKeepingEdges(M, CM, dims, name, p, Q, idx) ==
    [queries |-> Put(Q, name, Descriptor(M, CM, dims, p)),
     dep |-> idx \cup {<<src, "query", name>> : src \in DepSources(M, CM, dims, p)}]

\* define_query from the dependency registration on (the compilation succeeded)
StoreQuery(M, CM, dims, name, p, Q, idx) ==
    [queries |-> Put(Q, name, Descriptor(M, CM, dims, p)),
     dep |-> IndexRemoveQuery(idx, name)
                \cup {<<src, "query", name>> : src \in DepSources(M, CM, dims, p)}]

RECURSIVE RefreshEachStoringFailed(_, _, _, _, _)
\* a refresh loop in which the query whose compilation raises is stored anyway
RefreshEachStoringFailed(dependents, M, CM, dims, st) ==
    IF dependents = <<>> THEN st
    ELSE LET kind == Head(dependents)[1]
             qname == Head(dependents)[2]
         IN IF kind # "query" \/ qname \notin DOMAIN st.queries
            THEN RefreshEachStoringFailed(Tail(dependents), M, CM, dims, st)
            ELSE LET p == StoredParams(st.queries[qname])
                     done == StoreQuery(M, CM, dims, qname, p, st.queries, st.dep)
                 IN IF TopoSort(CM, p).cycle # NoNode
                    THEN [queries |-> done.queries, dep |-> done.dep, failed |-> TRUE]
                    ELSE RefreshEachStoringFailed(Tail(dependents), M, CM, dims,
                                [queries |-> done.queries, dep |-> done.dep,
                                 failed |-> FALSE])

RECURSIVE RefreshEach(_, _, _, _, _)
\* the loop of _refresh_queries_dependent_on; an exception leaves the loop
RefreshEach(dependents, M, CM, dims, st) ==
    IF dependents = <<>> THEN st
    ELSE LET kind == Head(dependents)[1]
             qname == Head(dependents)[2]
         IN IF kind # "query" \/ qname \notin DOMAIN st.queries
            THEN RefreshEach(Tail(dependents), M, CM, dims, st)
            ELSE LET p == StoredParams(st.queries[qname])
                 IN IF TopoSort(CM, p).cycle # NoNode
                    THEN [st EXCEPT !.failed = TRUE]
                    ELSE LET done == StoreQuery(M, CM, dims, qname, p, st.queries, st.dep)
                         IN RefreshEach(Tail(dependents), M, CM, dims,
                                [queries |-> done.queries, dep |-> done.dep,
                                 failed |-> FALSE])

----------------------------------------------------------------------------
(* Engine: the relationship map, a dict in insertion order *)

RelIndex(rels, a, b) ==
    IF \E i \in 1..Len(rels) : rels[i].pair = <<a, b>>
    THEN CHOOSE i \in 1..Len(rels) : rels[i].pair = <<a, b>>
    ELSE 0

\* self.relationships[(a, b)] = (k1, k2): a new key goes last, a known key
\* keeps its place
RelPut(rels, a, b, k1, k2) ==
    LET entry == [pair |-> <<a, b>>, keys |-> <<k1, k2>>]
        i == RelIndex(rels, a, b)
    IN IF i = 0 THEN Append(rels, entry) ELSE [rels EXCEPT ![i] = entry]

LinkedPairs(rels) == {rels[i].pair : i \in 1..Len(rels)}

\* the entry recorded in the direction of the call only
AddRelationshipOneWay(rels, links, t1, t2, k1, k2) ==
    IF links = <<>> \/ t1 \in Range(links) \/ t2 \in Range(links)
    THEN RelPut(rels, t1, t2, k1, k2)
    ELSE rels

\* every pair recorded, link table or not
AddRelationshipAlways(rels, links, t1, t2, k1, k2) ==
    RelPut(RelPut(rels, t1, t2, k1, k2), t2, t1, k2, k1)

\* _add_relationship when no composite key exists
AddRelationship(rels, links, t1, t2, k1, k2) ==
    IF links = <<>> \/ t1 \in Range(links) \/ t2 \in Range(links)
    THEN RelPut(RelPut(rels, t1, t2, k1, k2), t2, t1, k2, k1)
    ELSE rels

----------------------------------------------------------------------------
(* _find_path: breadth-first search *)

NoPath == [found |-> FALSE, path |-> <<>>]

\* queue.popleft()
PopLeft(queue) == [item |-> Head(queue), rest |-> Tail(queue)]

\* the path extended by a relationship: path + [(t1, t2, key1, key2)]
Edge(r) == <<r.pair[1], r.pair[2], r.keys[1], r.keys[2]>>

RECURSIVE ExpandFirst(_, _, _, _, _)
\* a mutation: only the first relationship out of the table is followed
ExpandFirst(i, cur, queue, visited, rels) ==
    IF i > Len(rels) THEN [queue |-> queue, visited |-> visited]
    ELSE IF rels[i].pair[1] = cur.table /\ rels[i].pair[2] \notin visited
    THEN [queue |-> Append(queue, [table |-> rels[i].pair[2],
                                   path |-> Append(cur.path, Edge(rels[i]))]),
          visited |-> visited \cup {rels[i].pair[2]}]
    ELSE ExpandFirst(i + 1, cur, queue, visited, rels)

RECURSIVE Expand(_, _, _, _, _)
\* the loop over self.relationships.items() for the table taken from the queue
Expand(i, cur, queue, visited, rels) ==
    IF i > Len(rels) THEN [queue |-> queue, visited |-> visited]
    ELSE LET r == rels[i]
         IN IF r.pair[1] = cur.table /\ r.pair[2] \notin visited
            THEN Expand(i + 1, cur,
                        Append(queue, [table |-> r.pair[2],
                                       path |-> Append(cur.path, Edge(r))]),
                        visited \cup {r.pair[2]}, rels)
            ELSE Expand(i + 1, cur, queue, visited, rels)

RECURSIVE Bfs(_, _, _, _)
Bfs(queue, visited, rels, end) ==
    IF queue = <<>> THEN NoPath
    ELSE LET popped == PopLeft(queue)
         IN IF popped.item.table = end
            THEN [found |-> TRUE, path |-> popped.item.path]
            ELSE LET ex == Expand(1, popped.item, popped.rest, visited, rels)
                 IN Bfs(ex.queue, ex.visited, rels, end)

FindPath(rels, start, end) ==
    Bfs(<<[table |-> start, path |-> <<>>]>>, {start}, rels, end)

\* "if path:" is false for None and for the empty list
Truthy(p) == p.found /\ p.path # <<>>

----------------------------------------------------------------------------
(* _find_complete_trajectory *)

\* trajectory.append(step[0]); trajectory.append(step[1]) for each step
Steps(path) == ConcatAll([i \in 1..Len(path) |-> <<path[i][1], path[i][2]>>])

RECURSIVE ViaIntermediate(_, _, _, _, _)
\* the search for a table reachable from the tail and reaching the target
ViaIntermediate(j, start, next, tbls, rels) ==
    IF j > Len(tbls) THEN <<>>
    ELSE LET p1 == FindPath(rels, start, tbls[j])
             p2 == FindPath(rels, tbls[j], next)
         IN IF Truthy(p1) /\ Truthy(p2) THEN Steps(p1.path \o p2.path)
            ELSE ViaIntermediate(j + 1, start, next, tbls, rels)

RECURSIVE Legs(_, _, _, _, _, _)
Legs(i, start, trajectory, targets, tbls, rels) ==
    IF i > Len(targets) THEN trajectory
    ELSE LET next == targets[i]
             path == FindPath(rels, start, next)
             leg == IF Truthy(path) THEN Steps(path.path)
                    ELSE ViaIntermediate(1, start, next, tbls, rels)
         \* start_table = next_table, whether or not a leg was found
         IN Legs(i + 1, next, trajectory \o leg, targets, tbls, rels)

\* final_trajectory: adjacent duplicates removed
CollapseAdjacent(t) ==
    LET keep == {i \in 1..Len(t) : i = 1 \/ t[i] # t[i - 1]}
        pos(k) == CHOOSE i \in keep : Cardinality({j \in keep : j < i}) = k - 1
    IN [k \in 1..Cardinality(keep) |-> t[pos(k)]]

FindCompleteTrajectory(targets, tbls, rels) ==
    IF targets = <<>> THEN <<>>
    ELSE CollapseAdjacent(Legs(2, targets[1], <<targets[1]>>, targets, tbls, rels))

----------------------------------------------------------------------------
(* _has_cyclic_relationships: depth-first search.  The neighbours and the   *)
(* start nodes are Python sets: every iteration order is an outcome.        *)

\* a mutation: the path returned starts after the table met again
SuffixAfter(path, node) == SubSeq(path, IndexOf(path, node) + 1, Len(path))

\* path[path.index(next_node):]
Suffix(path, node) == SubSeq(path, IndexOf(path, node), Len(path))

\* connected_tables of dfs(node, visited, path, parent)
ConnectedTables(rels, node, parent) ==
    {pr[2] : pr \in {x \in LinkedPairs(rels) : x[1] = node /\ x[2] # parent}}

NoParent == ""

RECURSIVE Dfs(_, _, _, _, _)
RECURSIVE DfsNeighbours(_, _, _, _, _, _)
\* the outcomes of dfs: the cycle returned ([] for none) and the visited set
Dfs(rels, node, visited, path, parent) ==
    DfsNeighbours(rels, node, ConnectedTables(rels, node, parent),
                  visited \cup {node}, Append(path, node), parent)

DfsNeighbours(rels, node, todo, visited, path, parent) ==
    IF todo = {} THEN {[cycle |-> <<>>, visited |-> visited]}
    ELSE UNION {
        IF next \notin visited
        THEN UNION {IF o.cycle # <<>> THEN {o}
                    ELSE DfsNeighbours(rels, node, todo \ {next}, o.visited, path, parent)
                    : o \in Dfs(rels, next, visited, path, node)}
        ELSE IF next \in Range(path) /\ next # parent
        THEN {[cycle |-> Suffix(path, next), visited |-> visited]}
        ELSE DfsNeighbours(rels, node, todo \ {next}, visited, path, parent)
        : next \in todo}

RECURSIVE DfsRoots(_, _, _)
\* the loop over the unvisited tables
DfsRoots(rels, todo, visited) ==
    IF todo = {} THEN {<<FALSE, <<>> >>}
    ELSE UNION {
        IF table \in visited THEN DfsRoots(rels, todo \ {table}, visited)
        ELSE UNION {IF o.cycle # <<>> THEN {<<TRUE, o.cycle>>}
                    ELSE DfsRoots(rels, todo \ {table}, o.visited)
                    : o \in Dfs(rels, table, visited, <<>>, NoParent)}
        : table \in todo}

\* every pair (is_cyclic, path) _has_cyclic_relationships can return
HasCyclicRelationships(rels) ==
    DfsRoots(rels, UNION {{pr[1], pr[2]} : pr \in LinkedPairs(rels)}, {})

----------------------------------------------------------------------------
(* Tables: a dict name -> frame in insertion order; a frame is its columns  *)

\* f'_index_{table}', f'_key_{column}', f'_link_table_{column}' and
\* f'{column} <{table}>' over the names the model uses
IndexColumn ==
    [T1 |-> "_index_T1", T2 |-> "_index_T2", T3 |-> "_index_T3", T4 |-> "_index_T4"]
KeyColumn == [a |-> "_key_a", b |-> "_key_b", D |-> "_key_D"]
LinkTableName == [a |-> "_link_table_a", b |-> "_link_table_b", D |-> "_link_table_D"]
RenamedColumn ==
    [a |-> [T1 |-> "a <T1>", T2 |-> "a <T2>", T3 |-> "a <T3>", T4 |-> "a <T4>"],
     b |-> [T1 |-> "b <T1>", T2 |-> "b <T2>", T3 |-> "b <T3>", T4 |-> "b <T4>"],
     D |-> [T1 |-> "D <T1>", T2 |-> "D <T2>", T3 |-> "D <T3>", T4 |-> "D <T4>"]]

Image(f) == {f[x] : x \in DOMAIN f}

\* col.startswith('_index_'), col.startswith('_key_'), re.search(r'<.*>', col)
IsIndexColumn(col) == col \in Image(IndexColumn)
IsKeyColumn(col) == col \in Image(KeyColumn)
IsRenamedColumn(col) == col \in UNION {Image(RenamedColumn[c]) : c \in DOMAIN RenamedColumn}

Table(name, columns) == [name |-> name, columns |-> columns]
TableNames(tbls) == [i \in 1..Len(tbls) |-> tbls[i].name]
ColumnsOf(tbls, name) == tbls[IndexOf(TableNames(tbls), name)].columns

\* self.tables[name] = frame
SetTable(tbls, name, columns) ==
    IF name \in Range(TableNames(tbls))
    THEN [tbls EXCEPT ![IndexOf(TableNames(tbls), name)] = Table(name, columns)]
    ELSE Append(tbls, Table(name, columns))

\* get_dimensions, before sorting
GetDimensions(tbls) ==
    {col \in UNION {Range(tbls[i].columns) : i \in 1..Len(tbls)} :
        ~(IsIndexColumn(col) \/ IsKeyColumn(col) \/ IsRenamedColumn(col))}

----------------------------------------------------------------------------
(* load_data, step by step *)

RECURSIVE AddEach(_, _, _, _, _)
\* the loop "for column in common_columns" over one iteration order
AddEach(order, rels, links, t1, t2) ==
    IF order = <<>> THEN rels
    ELSE AddEach(Tail(order),
                 AddRelationship(rels, links, t1, t2, Head(order), Head(order)),
                 links, t1, t2)

\* the pairs (i, j), i < j, in the order of the two nested loops
TablePairs(n) ==
    LET pairs == {pr \in (1..n) \X (1..n) : pr[1] < pr[2]}
        before(x, y) == x[1] < y[1] \/ (x[1] = y[1] /\ x[2] < y[2])
    IN [k \in 1..Cardinality(pairs) |->
            CHOOSE x \in pairs : Cardinality({y \in pairs : before(y, x)}) = k - 1]

RECURSIVE AutoEach(_, _, _, _, _)
AutoEach(k, pairs, tbls, links, rels) ==
    IF k > Len(pairs) THEN {rels}
    ELSE LET t1 == tbls[pairs[k][1]]
             t2 == tbls[pairs[k][2]]
         IN UNION {AutoEach(k + 1, pairs, tbls, links,
                            AddEach(order, rels, links, t1.name, t2.name))
                   : order \in Orders(Range(t1.columns) \cap Range(t2.columns))}

\* _add_auto_relationships: common_columns is a set, so every order of its
\* columns is an outcome
AddAutoRelationships(tbls, links, rels) ==
    AutoEach(1, TablePairs(Len(tbls)), tbls, links, rels)

\* "Add index columns to each table if not present"
AddIndexColumns(tbls) ==
    [i \in 1..Len(tbls) |->
        IF IndexColumn[tbls[i].name] \in Range(tbls[i].columns) THEN tbls[i]
        ELSE Table(tbls[i].name, Append(tbls[i].columns, IndexColumn[tbls[i].name]))]

\* all_columns of _create_link_tables: the columns in order of first
\* appearance, and for each the tables that have it
AllColumns(tbls) == Dedup(ConcatAll([i \in 1..Len(tbls) |-> tbls[i].columns]))
TablesWith(tbls, column) ==
    SelectSeq(TableNames(tbls), LAMBDA t : column \in Range(ColumnsOf(tbls, t)))

\* rename(columns={column: f'{column} <{table_name}>'}) or drop(columns=[column])
RenameOrDrop(columns, column, table, rename) ==
    IF rename
    THEN [i \in 1..Len(columns) |->
            IF columns[i] = column THEN RenamedColumn[column][table] ELSE columns[i]]
    ELSE SelectSeq(columns, LAMBDA c : c # column)

RECURSIVE MergeKeys(_, _, _, _)
\* the loop over the contributing tables: the key is merged in, the shared
\* column renamed or dropped
MergeKeys(names, column, tbls, rename) ==
    IF names = <<>> THEN tbls
    ELSE LET t == Head(names)
             merged == Append(ColumnsOf(tbls, t), KeyColumn[column])
         IN MergeKeys(Tail(names), column,
                      SetTable(tbls, t, RenameOrDrop(merged, column, t, rename)), rename)

\* _create_and_update_link_table on m = [tables, link_tables, link_table_keys]
CreateAndUpdateLinkTable(column, names, m, rename) ==
    LET link == LinkTableName[column]
        added == SetTable(m.tables, link, <<column, KeyColumn[column]>>)
    IN [tables |-> MergeKeys(names, column, added, rename),
        link_tables |-> IF link \in Range(m.link_tables) THEN m.link_tables
                        ELSE Append(m.link_tables, link),
        link_table_keys |-> Append(m.link_table_keys, KeyColumn[column])]

RECURSIVE LinkEach(_, _, _, _)
LinkEach(columns, loaded, m, rename) ==
    IF columns = <<>> THEN m
    ELSE LET names == TablesWith(loaded, Head(columns))
         IN LinkEach(Tail(columns), loaded,
                     IF Len(names) > 1
                     THEN CreateAndUpdateLinkTable(Head(columns), names, m, rename)
                     ELSE m,
                     rename)

CreateLinkTables(tbls, rename) ==
    LinkEach(AllColumns(tbls), tbls,
             [tables |-> tbls, link_tables |-> <<>>, link_table_keys |-> <<>>], rename)

----------------------------------------------------------------------------
(* The rows of the frames.  A row is a function from the column names to   *)
(* the values; data maps each table name to the rows of its frame.         *)

\* the value pandas gives a column of the right frame where a left join
\* finds no match
NaN == -1

\* frames that have columns and no row
NoRows(tbls) == [t \in Range(TableNames(tbls)) |-> <<>>]

\* the index counted from 1
AddIndexRowsFromOne(tbls, data) ==
    [t \in DOMAIN data |->
        IF IndexColumn[t] \in Range(ColumnsOf(tbls, t)) THEN data[t]
        ELSE [i \in 1..Len(data[t]) |-> Put(data[t][i], IndexColumn[t], i)]]

\* reset_index(drop=True) and [index_col] = index, for the tables that do not
\* have the column yet
AddIndexRows(tbls, data) ==
    [t \in DOMAIN data |->
        IF IndexColumn[t] \in Range(ColumnsOf(tbls, t)) THEN data[t]
        ELSE [i \in 1..Len(data[t]) |-> Put(data[t][i], IndexColumn[t], i - 1)]]

\* frame[[column]]: the values of one column, row by row
ColumnValues(rws, column) == [i \in 1..Len(rws) |-> rws[i][column]]

\* the link table without the drop_duplicates after the concat
LinkTableRowsPerTable(column, names, data) ==
    LET values == ConcatAll([i \in 1..Len(names) |->
                                Dedup(ColumnValues(data[names[i]], column))])
    IN [i \in 1..Len(values) |-> Put(Put(EmptyMap, column, values[i]), KeyColumn[column], i)]

\* the link table: the distinct values of the column over the contributing
\* tables in order of first appearance, keyed range(1, len + 1)
LinkTableRows(column, names, data) ==
    LET values == Dedup(ConcatAll([i \in 1..Len(names) |->
                                      Dedup(ColumnValues(data[names[i]], column))]))
    IN [i \in 1..Len(values) |-> Put(Put(EmptyMap, column, values[i]), KeyColumn[column], i)]

\* the key taken from the link row at the position of the left row
MergeLeftByPosition(left, link, column) ==
    [i \in 1..Len(left) |->
        Put(left[i], KeyColumn[column],
            IF i <= Len(link) THEN link[i][KeyColumn[column]] ELSE NaN)]

\* pd.merge(left, link, on=column, how='left'): one row for each match of a
\* left row, or the left row with no key where nothing matches
MergeLeft(left, link, column) ==
    ConcatAll([i \in 1..Len(left) |->
        LET matches == SelectSeq(link, LAMBDA r : r[column] = left[i][column])
        IN IF matches = <<>> THEN <<Put(left[i], KeyColumn[column], NaN)>>
           ELSE [j \in 1..Len(matches) |->
                    Put(left[i], KeyColumn[column], matches[j][KeyColumn[column]])]])

\* rename(columns={column: f'{column} <{table_name}>'}) or drop(columns=[column])
\* on one row
RenameOrDropRow(row, column, table, rename) ==
    IF rename THEN Put(Drop(row, column), RenamedColumn[column][table], row[column])
    ELSE Drop(row, column)

\* _create_and_update_link_table on the rows
CreateAndUpdateLinkRows(column, names, data, rename) ==
    LET link == LinkTableRows(column, names, data)
    IN [t \in DOMAIN data \cup {LinkTableName[column]} |->
            IF t = LinkTableName[column] THEN link
            ELSE IF t \in Range(names)
            THEN LET merged == MergeLeft(data[t], link, column)
                 IN [i \in 1..Len(merged) |-> RenameOrDropRow(merged[i], column, t, rename)]
            ELSE data[t]]

RECURSIVE LinkEachRows(_, _, _, _)
LinkEachRows(columns, loaded, data, rename) ==
    IF columns = <<>> THEN data
    ELSE LET names == TablesWith(loaded, Head(columns))
         IN LinkEachRows(Tail(columns), loaded,
                         IF Len(names) > 1
                         THEN CreateAndUpdateLinkRows(Head(columns), names, data, rename)
                         ELSE data,
                         rename)

\* the rows after the index columns are added and the link tables created
CreateLinkRows(tbls, data, rename) ==
    LinkEachRows(AllColumns(AddIndexColumns(tbls)), AddIndexColumns(tbls),
                 AddIndexRows(tbls, data), rename)

\* _build_column_to_table_mapping: the last table that has the column
BuildColumnToTableMapping(tbls) ==
    [col \in UNION {Range(tbls[i].columns) : i \in 1..Len(tbls)} |->
        LET having == {i \in 1..Len(tbls) : col \in Range(tbls[i].columns)}
        IN tbls[CHOOSE i \in having : \A j \in having : j <= i].name]

NoTable == ""

\* the selection with "at least one base table" for "exactly one"
SingleTableBaseFirst(tbls, links, keys) ==
    LET base_tables == SelectSeq(TableNames(tbls), LAMBDA t : t \notin Range(links))
    IN IF keys = <<>> /\ Len(base_tables) >= 1 THEN base_tables[1] ELSE NoTable

\* _init_join_strategy: the base table of the single-table strategy, or none
SingleTableBase(tbls, links, keys) ==
    LET base_tables == SelectSeq(TableNames(tbls), LAMBDA t : t \notin Range(links))
    IN IF keys = <<>> /\ Len(base_tables) = 1 THEN base_tables[1] ELSE NoTable

----------------------------------------------------------------------------
(* Join strategies: the columns of the key space, or the error raised *)

KeySpace(columns) == [error |-> FALSE, columns |-> columns, pair |-> <<>>]
\* the error with the two tables named in the other order
NoRelationshipReversed(t1, t2) == [error |-> TRUE, columns |-> <<>>, pair |-> <<t2, t1>>]
NoRelationship(t1, t2) == [error |-> TRUE, columns |-> <<>>, pair |-> <<t1, t2>>]

\* _join_trajectory_keys_single_table
JoinSingleTable(tbls, base) ==
    IF base = NoTable THEN KeySpace(<<>>)
    ELSE IF base \in Range(TableNames(tbls)) /\ base \in DOMAIN IndexColumn
            /\ IndexColumn[base] \in Range(ColumnsOf(tbls, base))
    THEN KeySpace(<<IndexColumn[base]>>)
    ELSE KeySpace(<<>>)

\* the columns kept on each side of a merge
KeyColumns(columns, keys) ==
    SelectSeq(columns, LAMBDA c : c \in Range(keys) \/ IsIndexColumn(c))

\* pd.merge(left, right, left_on=key1, right_on=key2, how="outer"): a key of
\* the same name on both sides is one column of the result
Merge(left, right, key1, key2) ==
    left \o SelectSeq(right, LAMBDA c : ~(key1 = key2 /\ c = key2))

RECURSIVE JoinSteps(_, _, _, _, _, _, _)
JoinSteps(i, trajectory, current, visited, tbls, rels, keys) ==
    IF i > Len(trajectory) - 1 THEN KeySpace(current)
    ELSE LET table1 == trajectory[i]
             table2 == trajectory[i + 1]
             r == RelIndex(rels, table1, table2)
         IN IF table2 \in visited
            THEN JoinSteps(i + 1, trajectory, current, visited, tbls, rels, keys)
            ELSE IF r = 0 THEN NoRelationship(table1, table2)
            ELSE JoinSteps(i + 1, trajectory,
                           Merge(KeyColumns(current, keys),
                                 KeyColumns(ColumnsOf(tbls, table2), keys),
                                 rels[r].keys[1], rels[r].keys[2]),
                           visited \cup {table2}, tbls, rels, keys)

\* _join_trajectory_keys_multi_table
JoinMultiTable(trajectory, tbls, rels, keys) ==
    IF trajectory = <<>> THEN KeySpace(<<>>)
    ELSE JoinSteps(1, trajectory, ColumnsOf(tbls, trajectory[1]), {trajectory[1]},
                   tbls, rels, keys)

\* self._join_trajectory_keys: the strategy _init_join_strategy installed
JoinTrajectoryKeys(trajectory, tbls, rels, keys, base) ==
    IF base # NoTable THEN JoinSingleTable(tbls, base)
    ELSE JoinMultiTable(trajectory, tbls, rels, keys)

----------------------------------------------------------------------------
(* Inputs of the definition calls *)

Asc(t) == <<(<<t, "asc">>)>>
Having(t) == <<Ref(t), Lit(">0")>>

\* define_query parameters: every way of naming a metric, a computed metric,
\* a HAVING column or a SORT column alone, and the pairs the dependency
\* bookkeeping treats differently
QueryParams ==
    {MkParams(<<"D">>, <<"A">>, <<>>, NoHaving, <<>>),
     MkParams(<<"D">>, <<>>, <<"A">>, NoHaving, <<>>),
     MkParams(<<"D">>, <<>>, <<>>, Having("B"), <<>>),
     MkParams(<<"D">>, <<>>, <<>>, Having("D"), <<>>),
     MkParams(<<"D">>, <<>>, <<>>, NoHaving, Asc("A")),
     MkParams(<<"D">>, <<"A">>, <<"A">>, NoHaving, <<>>),
     MkParams(<<"D">>, <<"A">>, <<>>, NoHaving, Asc("A")),
     MkParams(<<"D">>, <<>>, <<"A">>, Having("D"), <<>>),
     MkParams(<<"D">>, <<>>, <<"C">>, NoHaving, Asc("A")),
     MkParams(<<"D">>, <<>>, <<>>, Having("B"), Asc("A"))}

\* define_metric is called for an ordinary name and for a name that is also a
\* column of the loaded tables
MetricNames == {"A", "D"}

\* define_computed_metric inputs; "" and the empty expression are rejected
ComputedMetricInputs ==
    {<<n, <<Ref(t)>> >> : n \in Names, t \in {"A", "B", "D"}}
        \cup {<<"", <<Ref("A")>> >>, <<"A", <<>> >>}

\* the inputs of the specification of computed-metric chains
ChainInputs == {<<n, <<Ref(t)>> >> : n \in Names, t \in Tokens}

ChainParams ==
    {MkParams(<<"D">>, <<>>, <<"C">>, NoHaving, <<>>),
     MkParams(<<"D">>, <<>>, <<>>, Having("B"), <<>>),
     MkParams(<<"D">>, <<>>, <<>>, Having("B"), Asc("C")),
     MkParams(<<"D">>, <<>>, <<"C">>, NoHaving, Asc("A")),
     MkParams(<<"D">>, <<>>, <<"C", "A">>, NoHaving, <<>>)}

----------------------------------------------------------------------------
(* State *)

\* the record of a call: what was called, how it ended (outcome, the node a
\* cycle error names, whether the refresh of dependents was cut short),
\* whether it repeats the call before it, and the sources the dependency index
\* listed for the query of that name when the call was made
Call(op, name, p, outcome, node, failed) ==
    [op |-> op, name |-> name, params |-> p, outcome |-> outcome, node |-> node,
     refresh_failed |-> failed,
     repeated |-> op = "define_query" /\ last.op = op /\ last.name = name
                    /\ last.params = p /\ last.outcome = "ok",
     sources_before |-> {e[1] : e \in {x \in dep_index : x[2] = "query" /\ x[3] = name}}]

\* set_context_state(name): the state starts as a copy of 'Unfiltered'
SetContextState(states, name) == Put(states, name, states["Unfiltered"])

\* load_data(tables, apply_composite=False): every state of the engine the
\* call can leave behind, and how the call ends
Load(input, rename, to_be_stored, states_before) ==
    LET m == CreateLinkTables(AddIndexColumns(input), rename)
        base == SingleTableBase(m.tables, m.link_tables, m.link_table_keys)
        keys == IF base # NoTable THEN <<IndexColumn[base]>> ELSE m.link_table_keys
        built(raw, rels, cyclic, states, outcome) ==
            [tables |-> m.tables, rows |-> CreateLinkRows(input, NoRows(input), rename),
             link_tables |-> m.link_tables,
             link_table_keys |-> keys, relationships |-> rels,
             relationships_raw |-> raw,
             column_to_table |-> BuildColumnToTableMapping(m.tables),
             single_table_base |-> base, is_cyclic |-> cyclic,
             context_states |-> states, outcome |-> outcome]
        finish(raw, rels, cyclic) ==
            \* "return None" comes before "self.context_states = {}"
            IF cyclic[1] THEN built(raw, rels, cyclic, states_before, "ok")
            ELSE LET trajectory == FindCompleteTrajectory(m.link_tables,
                                                          TableNames(m.tables), rels)
                     unfiltered == JoinTrajectoryKeys(trajectory, m.tables, rels, keys, base)
                     seeded == Put(EmptyMap, "Unfiltered", unfiltered.columns)
                 IN IF unfiltered.error
                    THEN built(raw, rels, cyclic, EmptyMap, "value_error")
                    ELSE built(raw, rels, cyclic,
                               IF to_be_stored THEN seeded
                               ELSE SetContextState(seeded, "Default"), "ok")
    IN UNION {UNION {{finish(raw, rels, cyclic) : cyclic \in HasCyclicRelationships(rels)}
                     : rels \in AddAutoRelationships(m.tables, m.link_tables, <<>>)}
              : raw \in AddAutoRelationships(input, <<>>, <<>>)}

\* load_data on frames that have rows
LoadFrames(input, data, rename, to_be_stored, states_before) ==
    {[r EXCEPT !.rows = CreateLinkRows(input, data, rename)] :
        r \in Load(input, rename, to_be_stored, states_before)}

\* the engine's fields take the values of a load
Loaded(r) ==
    /\ tables = r.tables
    /\ rows = r.rows
    /\ link_tables = r.link_tables
    /\ link_table_keys = r.link_table_keys
    /\ relationships = r.relationships
    /\ relationships_raw = r.relationships_raw
    /\ column_to_table = r.column_to_table
    /\ single_table_base = r.single_table_base
    /\ is_cyclic = r.is_cyclic
    /\ context_states = r.context_states

\* Hypercube(): no table given, nothing loaded
NotLoaded ==
    [tables |-> <<>>, rows |-> EmptyMap, link_tables |-> <<>>, link_table_keys |-> <<>>,
     relationships |-> <<>>, relationships_raw |-> <<>>, column_to_table |-> EmptyMap,
     single_table_base |-> NoTable, is_cyclic |-> <<FALSE, <<>> >>,
     context_states |-> EmptyMap, outcome |-> "ok"]

Registries ==
    /\ metrics = {}
    /\ metric_data = EmptyMap
    /\ computed_metrics = EmptyMap
    /\ queries = EmptyMap
    /\ dep_index = {}
    /\ last = [op |-> "init", name |-> "", params |-> NoParams, outcome |-> "ok",
               node |-> NoNode, refresh_failed |-> FALSE, repeated |-> FALSE,
               sources_before |-> {}]
    /\ ops = 0

\* Hypercube({'T1': frame with the column D})
Constructed ==
    /\ Registries
    /\ rename_original_shared_columns = TRUE
    /\ \E r \in Load(<<Table("T1", <<"D">>)>>, TRUE, FALSE, EmptyMap) : Loaded(r)

Init == Constructed /\ limit = MaxOps

InitDefine == Constructed /\ limit = MaxDefineOps

InitChain == Constructed /\ limit = MaxChainOps

\* one more call, within the number of calls explored
Called == ops < limit /\ ops' = ops + 1 /\ UNCHANGED limit

\* _refresh_queries_dependent_on(name) in the registries M, CM
Refresh(name, M, CM, order) ==
    RefreshEach(order, M, CM, GetDimensions(tables),
                [queries |-> queries, dep |-> dep_index, failed |-> FALSE])

\* metric_tables: the tables column_to_table gives for the metric's columns
MetricTables(columns) ==
    {column_to_table[c] : c \in Range(columns) \cap DOMAIN column_to_table}

\* metric_columns_indexes for one order of the set metric_tables
ColumnsIndexes(targets) ==
    {IndexColumn[t] :
        t \in Range(FindCompleteTrajectory(targets, TableNames(tables), relationships))
                \ Range(link_tables)}

\* define_metric(n, e): Metric.columns are the bracketed names of e
DefineMetricAs(n, e) ==
    /\ Called
    /\ \E order \in Orders(IndexGet(dep_index, n)) :
       \E targets \in Orders(MetricTables(ExtractColumns(e))) :
        LET M == metrics \cup {n}
            st == Refresh(n, M, computed_metrics, order)
        IN /\ metrics' = M
           /\ metric_data' = Put(metric_data, n,
                                 [columns |-> ExtractColumns(e),
                                  columns_indexes |-> ColumnsIndexes(targets)])
           /\ queries' = st.queries
           /\ dep_index' = st.dep
           /\ last' = Call("define_metric", n, NoParams, "ok", NoNode, st.failed)
    /\ UNCHANGED <<computed_metrics, engine>>

\* a metric over the column D of the one table
DefineMetric(n) == DefineMetricAs(n, <<Ref("D")>>)

\* the record of a define_computed_metric call also holds the expression given
CallWith(e, call) == call @@ [expression |-> e]

\* a define_computed_metric without the two tests on its arguments
DefineComputedMetricUnchecked(n, e) ==
    /\ Called
    /\ \E order \in Orders(IndexGet(dep_index, n)) :
        LET CM == Put(computed_metrics, n, e)
            st == Refresh(n, metrics, CM, order)
        IN /\ computed_metrics' = CM
           /\ queries' = st.queries
           /\ dep_index' = st.dep
           /\ last' = CallWith(e, Call("define_computed_metric", n, NoParams, "ok",
                                       NoNode, st.failed))
    /\ UNCHANGED <<metrics, metric_data, engine>>

DefineComputedMetric(n, e) ==
    /\ Called
    /\ IF n = "" \/ e = <<>>
       THEN /\ last' = CallWith(e, Call("define_computed_metric", n, NoParams,
                                        "value_error", NoNode, FALSE))
            /\ UNCHANGED <<computed_metrics, queries, dep_index>>
       ELSE \E order \in Orders(IndexGet(dep_index, n)) :
            LET CM == Put(computed_metrics, n, e)
                st == Refresh(n, metrics, CM, order)
            IN /\ computed_metrics' = CM
               /\ queries' = st.queries
               /\ dep_index' = st.dep
               /\ last' = CallWith(e, Call("define_computed_metric", n, NoParams, "ok",
                                           NoNode, st.failed))
    /\ UNCHANGED <<metrics, metric_data, engine>>

\* a define_query that removes the old edges before it orders the computed
\* metrics
DefineQueryRemovingFirst(name, p) ==
    /\ Called
    /\ LET sorted == TopoSort(computed_metrics, p)
       IN IF sorted.cycle # NoNode
          THEN /\ last' = Call("define_query", name, p, "cycle_error", sorted.cycle, FALSE)
               /\ dep_index' = IndexRemoveQuery(dep_index, name)
               /\ UNCHANGED queries
          ELSE LET done == StoreQuery(metrics, computed_metrics, GetDimensions(tables),
                                      name, p, queries, dep_index)
               IN /\ queries' = done.queries
                  /\ dep_index' = done.dep
                  /\ last' = Call("define_query", name, p, "ok", NoNode, FALSE)
    /\ UNCHANGED <<metrics, metric_data, computed_metrics, engine>>

DefineQuery(name, p) ==
    /\ Called
    /\ LET sorted == TopoSort(computed_metrics, p)
       IN IF sorted.cycle # NoNode
          THEN /\ last' = Call("define_query", name, p, "cycle_error", sorted.cycle, FALSE)
               /\ UNCHANGED <<queries, dep_index>>
          ELSE LET done == StoreQuery(metrics, computed_metrics, GetDimensions(tables),
                                      name, p, queries, dep_index)
               IN /\ queries' = done.queries
                  /\ dep_index' = done.dep
                  /\ last' = Call("define_query", name, p, "ok", NoNode, FALSE)
    /\ UNCHANGED <<metrics, metric_data, computed_metrics, engine>>

\* a delete_query that leaves the edges of the query in the index
DeleteQueryKeepingEdges(name) ==
    /\ Called
    /\ queries' = Drop(queries, name)
    /\ last' = Call("delete_query", name, NoParams, "ok", NoNode, FALSE)
    /\ UNCHANGED <<metrics, metric_data, computed_metrics, dep_index, engine>>

DeleteQuery(name) ==
    /\ Called
    /\ queries' = Drop(queries, name)
    /\ dep_index' = IndexRemoveQuery(dep_index, name)
    /\ last' = Call("delete_query", name, NoParams, "ok", NoNode, FALSE)
    /\ UNCHANGED <<metrics, metric_data, computed_metrics, engine>>

\* a delete_metric that also removes the edges whose source is n
DeleteMetricWithEdges(n) ==
    /\ Called
    /\ metrics' = metrics \ {n}
    /\ metric_data' = Drop(metric_data, n)
    /\ dep_index' = {e \in dep_index : e[1] # n}
    /\ last' = Call("delete_metric", n, NoParams, "ok", NoNode, FALSE)
    /\ UNCHANGED <<computed_metrics, queries, engine>>

DeleteMetric(n) ==
    /\ Called
    /\ metrics' = metrics \ {n}
    /\ metric_data' = Drop(metric_data, n)
    /\ last' = Call("delete_metric", n, NoParams, "ok", NoNode, FALSE)
    /\ UNCHANGED <<computed_metrics, queries, dep_index, engine>>

DeleteComputedMetric(n) ==
    /\ Called
    /\ computed_metrics' = Drop(computed_metrics, n)
    /\ last' = Call("delete_computed_metric", n, NoParams, "ok", NoNode, FALSE)
    /\ UNCHANGED <<metrics, metric_data, queries, dep_index, engine>>

Next ==
    \/ \E n \in MetricNames : DefineMetric(n)
    \/ \E in \in ComputedMetricInputs : DefineComputedMetric(in[1], in[2])
    \/ \E q \in QueryNames, p \in QueryParams : DefineQuery(q, p)
    \/ \E q \in QueryNames : DeleteQuery(q)
    \/ \E n \in MetricNames : DeleteMetric(n)
    \/ \E n \in Names : DeleteComputedMetric(n)

Spec == Init /\ [][Next]_vars

\* definitions only, no deletion
NextDefine ==
    \/ \E n \in MetricNames : DefineMetric(n)
    \/ \E in \in ComputedMetricInputs : DefineComputedMetric(in[1], in[2])
    \/ \E q \in QueryNames, p \in QueryParams : DefineQuery(q, p)

SpecDefine == InitDefine /\ [][NextDefine]_vars

\* computed-metric chains: definitions and compilations of one query
NextChain ==
    \/ \E in \in ChainInputs : DefineComputedMetric(in[1], in[2])
    \/ \E p \in ChainParams : DefineQuery("Q1", p)

SpecChain == InitChain /\ [][NextChain]_vars

\* definitions and deletions over fewer inputs and longer runs: a metric A,
\* the computed metrics A and B, which can refer to one another, and queries
\* that name them as a metric, as a computed metric, in HAVING and in SORT
MaxLifecycleOps == 6

LifecycleInputs == {<<"B", <<Ref("A")>> >>, <<"A", <<Ref("B")>> >>}

LifecycleParams ==
    {MkParams(<<"D">>, <<"A">>, <<>>, NoHaving, <<>>),
     MkParams(<<"D">>, <<>>, <<"B">>, NoHaving, <<>>),
     MkParams(<<"D">>, <<>>, <<>>, Having("B"), Asc("A"))}

InitLifecycle == Constructed /\ limit = MaxLifecycleOps

NextLifecycle ==
    \/ DefineMetric("A")
    \/ \E in \in LifecycleInputs : DefineComputedMetric(in[1], in[2])
    \/ \E q \in QueryNames, p \in LifecycleParams : DefineQuery(q, p)
    \/ \E q \in QueryNames : DeleteQuery(q)
    \/ DeleteMetric("A")
    \/ \E n \in {"A", "B"} : DeleteComputedMetric(n)

SpecLifecycle == InitLifecycle /\ [][NextLifecycle]_vars

----------------------------------------------------------------------------
(* The relationship graph: relationships recorded one by one over four      *)
(* tables, and the three graph functions applied to what is recorded        *)

GraphTables == <<"T1", "T2", "T3", "T4">>

\* the key a table joins on in a recorded relationship
GraphKey == [T1 |-> "k1", T2 |-> "k2", T3 |-> "k3", T4 |-> "k4"]

\* the targets of a trajectory: the keys of a dict, so no table twice
TargetLists ==
    {t \in UNION {[1..n -> Range(GraphTables)] : n \in 0..MaxTargets} :
        \A i, j \in 1..Len(t) : i # j => t[i] # t[j]}

Ran(op, args, value) == [op |-> op, args |-> args, value |-> value, outcome |-> "ok"]

\* Hypercube(four tables that share no column)
InitGraph ==
    /\ Registries
    /\ rename_original_shared_columns = TRUE
    /\ \E r \in Load([i \in 1..Len(GraphTables) |-> Table(GraphTables[i], <<>>)],
                     TRUE, FALSE, EmptyMap) : Loaded(r)
    /\ limit = MaxGraphOps

AddRelationshipCall(t1, t2) ==
    /\ Called
    /\ relationships' = AddRelationship(relationships, link_tables, t1, t2,
                                        GraphKey[t1], GraphKey[t2])
    /\ last' = Ran("add_relationship", <<t1, t2>>, <<>>)
    /\ UNCHANGED <<registries, rename_original_shared_columns, load_state>>

FindPathCall(start, end) ==
    /\ Called
    /\ last' = Ran("find_path", <<start, end>>, FindPath(relationships, start, end))
    /\ UNCHANGED <<registries, engine>>

FindCompleteTrajectoryCall(targets) ==
    /\ Called
    /\ last' = Ran("find_complete_trajectory", targets,
                   FindCompleteTrajectory(targets, TableNames(tables), relationships))
    /\ UNCHANGED <<registries, engine>>

HasCyclicRelationshipsCall ==
    /\ Called
    /\ \E r \in HasCyclicRelationships(relationships) :
        last' = Ran("has_cyclic_relationships", <<>>, r)
    /\ UNCHANGED <<registries, engine>>

NextGraph ==
    \/ \E i \in 1..Len(GraphTables) : \E j \in (i + 1)..Len(GraphTables) :
            AddRelationshipCall(GraphTables[i], GraphTables[j])
    \/ \E start, end \in Range(GraphTables) : FindPathCall(start, end)
    \/ \E targets \in TargetLists : FindCompleteTrajectoryCall(targets)
    \/ HasCyclicRelationshipsCall

SpecGraph == InitGraph /\ [][NextGraph]_vars

----------------------------------------------------------------------------
(* Loading: load_data called on an instance built without tables *)

LoadTableNames == <<"T1", "T2", "T3">>

\* the columns an input table can have
Schemas ==
    [T1 |-> {<<"a">>, <<"a", "b">>, <<"b", "D">>},
     T2 |-> {<<"a">>, <<"a", "b">>, <<"b", "D">>},
     T3 |-> {<<"b">>}]

\* the dicts of up to three tables
LoadInputs ==
    UNION {{[i \in 1..n |-> Table(LoadTableNames[i], cols[i])] :
                cols \in {c \in [1..n -> UNION Image(Schemas)] :
                            \A i \in 1..n : c[i] \in Schemas[LoadTableNames[i]]}}
           : n \in 0..Len(LoadTableNames)}

\* Hypercube(rename_original_shared_columns=...)
InitLoad ==
    /\ Registries
    /\ rename_original_shared_columns \in BOOLEAN
    /\ Loaded(NotLoaded)
    /\ limit = MaxLoads

LoadData(input, to_be_stored, reset_all) ==
    /\ Called
    /\ \E r \in Load(input, rename_original_shared_columns, to_be_stored, context_states) :
        /\ tables' = r.tables
        /\ rows' = r.rows
        /\ link_tables' = r.link_tables
        /\ link_table_keys' = r.link_table_keys
        /\ relationships' = r.relationships
        /\ relationships_raw' = r.relationships_raw
        /\ column_to_table' = r.column_to_table
        /\ single_table_base' = r.single_table_base
        /\ is_cyclic' = r.is_cyclic
        /\ context_states' = r.context_states
        /\ last' = [op |-> "load_data", outcome |-> r.outcome, reload |-> ops > 0,
                    loaded_before |-> "Unfiltered" \in DOMAIN context_states]
    /\ IF reset_all
       THEN /\ metrics' = {}
            /\ metric_data' = EmptyMap
            /\ computed_metrics' = EmptyMap
            /\ queries' = EmptyMap
            /\ dep_index' = {}
       ELSE UNCHANGED registries
    /\ UNCHANGED rename_original_shared_columns

NextLoad ==
    \E input \in LoadInputs, to_be_stored, reset_all \in BOOLEAN :
        LoadData(input, to_be_stored, reset_all)

SpecLoad == InitLoad /\ [][NextLoad]_vars

\* loads made after definitions: load_data(tables, reset_all=...) on a cube
\* that holds metrics, computed metrics and queries.  The record of the call
\* holds reset_all and what the cube held when the call was made.
MaxResetOps == 4

ResetInputs ==
    {<<Table("T1", <<"D">>)>>,
     <<Table("T1", <<"a">>), Table("T2", <<"a", "b">>)>>}

\* what the cube holds when load_data is called
Defined == [metrics |-> metrics, computed_metrics |-> DOMAIN computed_metrics,
            queries |-> DOMAIN queries, edges |-> dep_index]

\* a load_data whose reset leaves the dependency index as it is
LoadDataKeepingEdges(input, reset_all) ==
    /\ Called
    /\ \E r \in Load(input, rename_original_shared_columns, FALSE, context_states) :
        /\ tables' = r.tables
        /\ rows' = r.rows
        /\ link_tables' = r.link_tables
        /\ link_table_keys' = r.link_table_keys
        /\ relationships' = r.relationships
        /\ relationships_raw' = r.relationships_raw
        /\ column_to_table' = r.column_to_table
        /\ single_table_base' = r.single_table_base
        /\ is_cyclic' = r.is_cyclic
        /\ context_states' = r.context_states
        /\ last' = [op |-> "load_data", outcome |-> r.outcome, reset_all |-> reset_all,
                    before |-> Defined]
    /\ IF reset_all
       THEN /\ metrics' = {}
            /\ metric_data' = EmptyMap
            /\ computed_metrics' = EmptyMap
            /\ queries' = EmptyMap
            /\ UNCHANGED dep_index
       ELSE UNCHANGED registries
    /\ UNCHANGED rename_original_shared_columns

LoadDataAfterDefinitions(input, reset_all) ==
    /\ Called
    /\ \E r \in Load(input, rename_original_shared_columns, FALSE, context_states) :
        /\ tables' = r.tables
        /\ rows' = r.rows
        /\ link_tables' = r.link_tables
        /\ link_table_keys' = r.link_table_keys
        /\ relationships' = r.relationships
        /\ relationships_raw' = r.relationships_raw
        /\ column_to_table' = r.column_to_table
        /\ single_table_base' = r.single_table_base
        /\ is_cyclic' = r.is_cyclic
        /\ context_states' = r.context_states
        /\ last' = [op |-> "load_data", outcome |-> r.outcome, reset_all |-> reset_all,
                    before |-> Defined]
    /\ IF reset_all
       THEN /\ metrics' = {}
            /\ metric_data' = EmptyMap
            /\ computed_metrics' = EmptyMap
            /\ queries' = EmptyMap
            /\ dep_index' = {}
       ELSE UNCHANGED registries
    /\ UNCHANGED rename_original_shared_columns

InitReset == Constructed /\ limit = MaxResetOps

NextReset ==
    \/ DefineMetric("A")
    \/ \E in \in LifecycleInputs : DefineComputedMetric(in[1], in[2])
    \/ \E q \in QueryNames, p \in LifecycleParams : DefineQuery(q, p)
    \/ \E input \in ResetInputs, reset_all \in BOOLEAN :
            LoadDataAfterDefinitions(input, reset_all)

SpecReset == InitReset /\ [][NextReset]_vars

----------------------------------------------------------------------------
(* Metrics over a loaded model of up to three tables *)

MaxMetricOps == 1

\* the columns that are neither index nor key
BusinessColumns(tbls) ==
    {col \in UNION {Range(tbls[i].columns) : i \in 1..Len(tbls)} :
        ~(IsIndexColumn(col) \/ IsKeyColumn(col))}

\* expressions over one or two columns of the model, or a column Z that no
\* table has
MetricExpressions(tbls) ==
    LET cols == BusinessColumns(tbls) \cup {"Z"}
    IN {<<Ref(c)>> : c \in cols} \cup {<<Ref(c), Lit("+"), Ref(d)>> : c, d \in cols}

\* Hypercube(tables, rename_original_shared_columns=..., apply_composite=False)
InitMetric ==
    /\ Registries
    /\ rename_original_shared_columns \in BOOLEAN
    /\ \E input \in LoadInputs :
        \E r \in Load(input, rename_original_shared_columns, FALSE, EmptyMap) :
            r.outcome = "ok" /\ Loaded(r)
    /\ limit = MaxMetricOps

NextMetric ==
    \E n \in MetricNames : \E e \in MetricExpressions(tables) : DefineMetricAs(n, e)

SpecMetric == InitMetric /\ [][NextMetric]_vars

----------------------------------------------------------------------------
(* Loading frames that have rows *)

MaxRows == 2

\* the values of a business column
RowValues == {"x", "y"}

\* the columns an input frame can have
RowSchemas == [T1 |-> {<<"a">>}, T2 |-> {<<"a">>, <<"b">>}]

RowsOver(columns) == UNION {[1..n -> [Range(columns) -> RowValues]] : n \in 0..MaxRows}

Frames(name) ==
    UNION {{[name |-> name, columns |-> columns, rows |-> rws] : rws \in RowsOver(columns)}
           : columns \in RowSchemas[name]}

\* the dicts of no frame, of T1, of T1 and T2
FrameInputs ==
    {<<>>} \cup {<<f1>> : f1 \in Frames("T1")}
           \cup {<<f1, f2>> : f1 \in Frames("T1"), f2 \in Frames("T2")}

SchemaOf(input) == [i \in 1..Len(input) |-> Table(input[i].name, input[i].columns)]
DataOf(input) ==
    [t \in Range(TableNames(input)) |-> input[IndexOf(TableNames(input), t)].rows]

InitRows ==
    /\ Registries
    /\ rename_original_shared_columns \in BOOLEAN
    /\ Loaded(NotLoaded)
    /\ limit = 0

\* load_data(input, apply_composite=False)
LoadFramesData(input) ==
    /\ \E r \in LoadFrames(SchemaOf(input), DataOf(input), rename_original_shared_columns,
                            FALSE, context_states) :
        /\ tables' = r.tables
        /\ rows' = r.rows
        /\ link_tables' = r.link_tables
        /\ link_table_keys' = r.link_table_keys
        /\ relationships' = r.relationships
        /\ relationships_raw' = r.relationships_raw
        /\ column_to_table' = r.column_to_table
        /\ single_table_base' = r.single_table_base
        /\ is_cyclic' = r.is_cyclic
        /\ context_states' = r.context_states
        /\ last' = [op |-> "load_data", outcome |-> r.outcome, input |-> input]
    /\ UNCHANGED <<registries, rename_original_shared_columns, ops, limit>>

NextRows == \E input \in FrameInputs : LoadFramesData(input)

SpecRows == InitRows /\ [][NextRows]_vars

----------------------------------------------------------------------------
(* Joining: _join_trajectory_keys called on a loaded model with any         *)
(* trajectory over its tables                                               *)

MaxTrajectory == 4

\* the dicts given to the constructor: no table, one table, two tables that
\* share nothing, two tables that share one column
JoinInputs ==
    {<<>>,
     <<Table("T1", <<"a">>)>>,
     <<Table("T1", <<"a">>), Table("T2", <<"b">>)>>,
     <<Table("T1", <<"a">>), Table("T2", <<"a">>)>>,
     <<Table("T1", <<"a", "b">>), Table("T2", <<"a">>)>>}

Trajectories(names) == UNION {[1..n -> Range(names)] : n \in 0..MaxTrajectory}

\* Hypercube(tables, rename_original_shared_columns=..., apply_composite=False)
InitJoin ==
    /\ Registries
    /\ rename_original_shared_columns \in BOOLEAN
    /\ \E input \in JoinInputs :
        \E r \in Load(input, rename_original_shared_columns, FALSE, EmptyMap) :
            r.outcome = "ok" /\ Loaded(r)
    /\ limit = 0

JoinTrajectoryKeysCall(trajectory) ==
    /\ LET value == JoinTrajectoryKeys(trajectory, tables, relationships,
                                       link_table_keys, single_table_base)
       IN last' = [op |-> "join_trajectory_keys", args |-> trajectory, value |-> value,
                   outcome |-> IF value.error THEN "value_error" ELSE "ok"]
    /\ UNCHANGED <<registries, engine, ops, limit>>

NextJoin ==
    \E trajectory \in Trajectories(TableNames(tables)) : JoinTrajectoryKeysCall(trajectory)

SpecJoin == InitJoin /\ [][NextJoin]_vars

----------------------------------------------------------------------------
(* References among computed metrics *)

\* the computed metrics the expression of n names
RefsOf(CM, n) == IF n \in DOMAIN CM THEN Range(Columns(CM, n)) \cap DOMAIN CM ELSE {}

RECURSIVE Closure(_, _, _)
\* the computed metrics reached from the set S in at most k reference steps
Closure(CM, S, k) ==
    IF k = 0 THEN S
    ELSE Closure(CM, S \cup UNION {RefsOf(CM, n) : n \in S}, k - 1)

ReachedFrom(CM, S) == Closure(CM, S, Cardinality(DOMAIN CM))

\* n references itself, directly or through other computed metrics
OnCycle(CM, n) == n \in ReachedFrom(CM, RefsOf(CM, n))

Acyclic(CM) == \A n \in DOMAIN CM : ~OnCycle(CM, n)

\* the computed metrics involved in a query: requested, named by HAVING or
\* SORT, or reached from those through expressions
Involved(CM, p) ==
    ReachedFrom(CM, (Range(p.computed_metrics) \cup Range(HavingColumns(p))
                        \cup Range(SortColumns(p))) \cap DOMAIN CM)

\* the stored query d names n in one of the places C1 lists
Mentions(CM, d, n) ==
    n \in Range(d.metrics) \cup Range(d.computed_metrics)
            \cup Range(HavingColumns(d)) \cup Range(SortColumns(d))
            \cup Range(RequestedColumns(CM, d))

\* what define_query would store now for the parameters of the stored query d
Recompiled(d) ==
    Descriptor(metrics, computed_metrics, GetDimensions(tables), StoredParams(d))

Compiles(d) == TopoSort(computed_metrics, StoredParams(d)).cycle = NoNode

----------------------------------------------------------------------------
(* Claims *)

\* C1: when define_metric(n) or define_computed_metric(n) has returned, every
\* stored query that names n (metrics, computed_metrics, HAVING, SORT or the
\* expression of a requested computed metric) holds the descriptor define_query
\* would store now for its stored parameters.  Stated for the queries that
\* define_query can compile now.
C1_DependentsRecompiled ==
    (last.op \in {"define_metric", "define_computed_metric"} /\ last.outcome = "ok")
        => \A q \in DOMAIN queries :
              (Mentions(computed_metrics, queries[q], last.name) /\ Compiles(queries[q]))
                  => queries[q] = Recompiled(queries[q])

\* C2: a query defined while M is no metric, computed metric or dimension and
\* listing M in metrics is stored with M in missing_column_names, and once
\* define_metric(M) has returned no stored query lists M as missing.
\* Stated for the queries that define_query can compile now.
C2_ForwardReference ==
    /\ (last.op = "define_query" /\ last.outcome = "ok")
          => \A m \in Range(last.params.metrics) :
                (m \notin metrics /\ m \notin DOMAIN computed_metrics
                    /\ m \notin GetDimensions(tables))
                  => m \in Range(queries[last.name].missing_column_names)
    /\ (last.op = "define_metric"
            /\ \E q \in DOMAIN queries : last.name \in Range(queries[q].metrics))
          => \A q \in DOMAIN queries :
                Compiles(queries[q])
                    => last.name \notin Range(queries[q].missing_column_names)

\* C3: define_query called twice in a row with the same name and parameters
\* leaves the stored descriptor and the dependency index as the first call
\* left them.
C3_IdempotentRedefinition ==
    [][(last'.op = "define_query" /\ last'.repeated /\ last'.outcome = "ok")
          => /\ last.name \in DOMAIN queries
             /\ queries'[last.name] = queries[last.name]
             /\ dep_index' = dep_index]_vars

C3_Witness ==
    /\ last.op = "define_query" /\ last.repeated /\ last.outcome = "ok"
    /\ queries[last.name].hidden_metrics # <<>>
    /\ \E e \in dep_index : e[3] = last.name

\* C4: in the descriptor define_query stores, computed_metrics_ordered lists
\* each computed metric after every computed metric its expression references.
\* Stated for registries in which no computed metric references itself, and
\* for the referenced computed metrics that the list holds.
C4_TopologicalOrder ==
    (last.op = "define_query" /\ last.outcome = "ok" /\ Acyclic(computed_metrics))
        => LET ord == queries[last.name].computed_metrics_ordered
           IN \A i \in 1..Len(ord) :
                 \A r \in RefsOf(computed_metrics, ord[i]) \cap Range(ord) :
                    \E j \in 1..(i - 1) : ord[j] = r

\* C5: define_query raises the cycle error, naming a computed metric on a
\* cycle, whenever a computed metric involved in the query references itself
\* directly or through other computed metrics.
C5_CycleRaises ==
    (last.op = "define_query"
        /\ \E n \in Involved(computed_metrics, last.params) : OnCycle(computed_metrics, n))
        => last.outcome = "cycle_error" /\ OnCycle(computed_metrics, last.node)

----------------------------------------------------------------------------
(* The relationship graph as a graph *)

Adjacent(a, b) == <<a, b>> \in LinkedPairs(relationships)

RECURSIVE Grow(_, _)
\* the tables reached from the tables S along the pairs E
Grow(S, E) ==
    LET more == S \cup {pr[2] : pr \in {x \in E : x[1] \in S}}
    IN IF more = S THEN S ELSE Grow(more, E)

ReachableFrom(a) == Grow({a}, LinkedPairs(relationships))

RECURSIVE DistFrom(_, _, _, _)
DistFrom(frontier, seen, b, d) ==
    IF b \in frontier THEN d
    ELSE IF frontier = {} THEN -1
    ELSE LET next == {t \in Range(GraphTables) :
                        t \notin seen /\ \E f \in frontier : Adjacent(f, t)}
         IN DistFrom(next, seen \cup next, b, d + 1)

\* the least number of relationships between a and b, -1 when there is none
Distance(a, b) == DistFrom({a}, {a}, b, 0)

\* some relationship closes a cycle: its ends stay connected without it
GraphHasCycle ==
    \E pr \in LinkedPairs(relationships) :
        pr[2] \in Grow({pr[1]}, LinkedPairs(relationships) \ {pr, <<pr[2], pr[1]>>})

\* p lists the tables of one cycle, each once, in the order of the cycle
SimpleCycle(p) ==
    /\ Len(p) >= 3
    /\ \A i, j \in 1..Len(p) : i # j => p[i] # p[j]
    /\ \A i \in 1..(Len(p) - 1) : Adjacent(p[i], p[i + 1])
    /\ Adjacent(p[Len(p)], p[1])

\* w walks along recorded relationships, no table twice in a row
ConnectedWalk(w) ==
    \A i \in 1..(Len(w) - 1) : w[i] # w[i + 1] /\ Adjacent(w[i], w[i + 1])

\* p is a chain of recorded edges from a to b
ChainOfEdges(p, a, b) ==
    /\ \A i \in 1..Len(p) :
          \E k \in 1..Len(relationships) :
              /\ relationships[k].pair = <<p[i][1], p[i][2]>>
              /\ relationships[k].keys = <<p[i][3], p[i][4]>>
    /\ \A i \in 1..(Len(p) - 1) : p[i][2] = p[i + 1][1]
    /\ IF p = <<>> THEN a = b ELSE p[1][1] = a /\ p[Len(p)][2] = b

----------------------------------------------------------------------------
(* Claims on the engine *)

\* C6: for every non-empty list of target tables, _find_complete_trajectory
\* returns a walk that starts at the first target, contains every target, has
\* a recorded relationship between every two consecutive tables and no table
\* twice in adjacent positions.
C6_ConnectedWalk ==
    (last.op = "find_complete_trajectory" /\ last.args # <<>>)
        => /\ last.value # <<>>
           /\ last.value[1] = last.args[1]
           /\ Range(last.args) \subseteq Range(last.value)
           /\ ConnectedWalk(last.value)

\* C7: _find_path(start, end) returns no path exactly when end cannot be
\* reached from start; otherwise it returns a chain of recorded edges
\* (tableA, tableB, keyA, keyB) from start to end with as many edges as the
\* shortest distance between the two tables.
C7_ShortestPath ==
    last.op = "find_path"
        => /\ ~last.value.found <=> last.args[2] \notin ReachableFrom(last.args[1])
           /\ last.value.found
                => /\ ChainOfEdges(last.value.path, last.args[1], last.args[2])
                   /\ Len(last.value.path) = Distance(last.args[1], last.args[2])

C7_Witness ==
    /\ last.op = "find_path"
    /\ last.value.found
    /\ Len(last.value.path) = 3

C9_NoContextStateWhenCyclic ==
    (last.op = "load_data" /\ is_cyclic[1])
        => last.outcome = "ok" /\ DOMAIN context_states = {}

\* C10: after a load_data call that built the context states, 'Unfiltered'
\* holds only columns named _index_... or _key_..., whatever the shape of the
\* model.
C10_UnfilteredKeysOnly ==
    (last.op = "load_data" /\ last.outcome = "ok" /\ ~is_cyclic[1])
        => \A c \in Range(context_states["Unfiltered"]) :
              IsIndexColumn(c) \/ IsKeyColumn(c)


----------------------------------------------------------------------------
(* Claims about the join strategies *)

\* the steps of a trajectory: positions i with the pair (t[i], t[i+1])
StepsOf(t) == 1..(Len(t) - 1)
Related(a, b) == \E i \in 1..Len(relationships) : relationships[i].pair = <<a, b>>
\* the steps between two different tables with no recorded relationship
UnrelatedSteps(t) == {i \in StepsOf(t) : t[i] # t[i + 1] /\ ~Related(t[i], t[i + 1])}
\* the steps that lead to a table the trajectory has not been at before
NewTableSteps(t) == {i \in StepsOf(t) : \A j \in 1..i : t[j] # t[i + 1]}
FirstOf(S) == CHOOSE i \in S : \A j \in S : i <= j

MultiTableJoin == last.op = "join_trajectory_keys" /\ single_table_base = NoTable

\* C11: in multi-table mode join_trajectory_keys raises the error naming the
\* two tables whenever two consecutive tables of the trajectory have no
\* recorded relationship, and returns a key space only when there is no such
\* step
C11_UnrelatedStepRaises ==
    MultiTableJoin =>
        IF UnrelatedSteps(last.args) # {}
        THEN /\ last.value.error
             /\ \E i \in UnrelatedSteps(last.args) :
                    last.value.pair = <<last.args[i], last.args[i + 1]>>
        ELSE ~last.value.error

\* C11 as amended: the error is raised exactly when a step that leads to a
\* table not met earlier in the trajectory has no recorded relationship, and
\* it names the first such step; a step back to a table already met is
\* skipped whether or not a relationship is recorded for it
C11_UnrelatedNewTableRaises ==
    MultiTableJoin =>
        LET bad == UnrelatedSteps(last.args) \cap NewTableSteps(last.args)
        IN IF bad # {}
           THEN /\ last.value.error
                /\ last.outcome = "value_error"
                /\ last.value.pair = <<last.args[FirstOf(bad)], last.args[FirstOf(bad) + 1]>>
           ELSE ~last.value.error

\* an error raised for a step that comes after a related step
C11_Witness ==
    /\ MultiTableJoin
    /\ last.value.error
    /\ Len(last.args) = 3
    /\ Related(last.args[1], last.args[2])
    /\ last.value.pair = <<last.args[2], last.args[3]>>

\* the tables that are no link table, and the keys the link tables brought
NonLinkTables == {t \in Range(TableNames(tables)) : t \notin Range(link_tables)}
LinkKeys == {k \in Range(link_table_keys) : IsKeyColumn(k)}

\* C12: the single-table strategy is selected exactly when there is no
\* link-table key and exactly one non-link table, the multi-table strategy
\* otherwise; under the single-table strategy join_trajectory_keys returns
\* the _index_ column of the base table as the only column, whatever the
\* trajectory
C12_StrategySelection ==
    /\ single_table_base # NoTable
          <=> (LinkKeys = {} /\ Cardinality(NonLinkTables) = 1)
    /\ single_table_base # NoTable => NonLinkTables = {single_table_base}
    /\ (last.op = "join_trajectory_keys" /\ single_table_base # NoTable)
          => /\ ~last.value.error
             /\ last.value.columns = <<IndexColumn[single_table_base]>>

\* the single-table strategy asked for a trajectory of several steps
C12_Witness ==
    /\ last.op = "join_trajectory_keys"
    /\ single_table_base = "T1"
    /\ Len(last.args) > 2
    /\ last.value.columns = <<"_index_T1">>

----------------------------------------------------------------------------
(* Claims about the relationship map after a load *)

\* the map rels holds the entry (a, b) -> (k1, k2)
Entry(rels, a, b, k1, k2) ==
    \E i \in 1..Len(rels) : rels[i] = [pair |-> <<a, b>>, keys |-> <<k1, k2>>]
HasPair(rels, a, b) == \E i \in 1..Len(rels) : rels[i].pair = <<a, b>>

\* a load of the two tables T1 and T2 that share exactly the column c
LoadedSharing(c) ==
    /\ last.op = "load_data"
    /\ last.outcome = "ok"
    /\ NonLinkTables = {"T1", "T2"}
    /\ link_tables = <<LinkTableName[c]>>

\* C13: after loading two tables that share a column c the relationship map
\* holds (T1, T2) -> ('_key_c', '_key_c') and the reverse entry with the
\* same keys
C13_DirectRelationship ==
    \A c \in DOMAIN KeyColumn :
        LoadedSharing(c) =>
            /\ Entry(relationships, "T1", "T2", KeyColumn[c], KeyColumn[c])
            /\ Entry(relationships, "T2", "T1", KeyColumn[c], KeyColumn[c])

\* C13 as amended: the relationship map holds, in both directions, the entry
\* between each of the two tables and the link table of c, with the keys
\* ('_key_c', '_key_c'); it holds no entry for the pair of the two tables,
\* which only relationships_raw records, under the keys (c, c)
C13_RelationshipThroughLinkTable ==
    \A c \in DOMAIN KeyColumn :
        LoadedSharing(c) =>
            /\ \A t \in {"T1", "T2"} :
                /\ Entry(relationships, t, LinkTableName[c], KeyColumn[c], KeyColumn[c])
                /\ Entry(relationships, LinkTableName[c], t, KeyColumn[c], KeyColumn[c])
            /\ Len(relationships) = 4
            /\ ~HasPair(relationships, "T1", "T2")
            /\ ~HasPair(relationships, "T2", "T1")
            /\ Entry(relationships_raw, "T1", "T2", c, c)
            /\ Entry(relationships_raw, "T2", "T1", c, c)
            /\ Len(relationships_raw) = 2

\* the two tables share the column a, and one of them has a column of its own
C13_Witness ==
    /\ LoadedSharing("a")
    /\ \E t \in {"T1", "T2"} : \E col \in Range(ColumnsOf(tables, t)) :
            ~(IsIndexColumn(col) \/ IsKeyColumn(col) \/ IsRenamedColumn(col))
    /\ Entry(relationships, "T1", "_link_table_a", "_key_a", "_key_a")

\* the map holds (a, b) -> (k1, k2) exactly when it holds (b, a) -> (k2, k1)
Symmetric(rels) ==
    \A i \in 1..Len(rels) :
        Entry(rels, rels[i].pair[2], rels[i].pair[1], rels[i].keys[2], rels[i].keys[1])

\* C14: the relationship map is symmetric in every state, the map kept from
\* the first pass of the load (relationships_raw) and the final map alike,
\* also when a later shared column has overwritten the entry of a pair
C14_SymmetricRelationships ==
    Symmetric(relationships) /\ Symmetric(relationships_raw)

\* T1 and T2 share two columns: the entry of the pair was written twice
C14_Witness ==
    /\ last.op = "load_data"
    /\ HasPair(relationships_raw, "T1", "T2")
    /\ \A t \in {"T1", "T2"} : {"_key_a", "_key_b"} \subseteq Range(ColumnsOf(tables, t))
    /\ HasPair(relationships, "_link_table_b", "T1")

----------------------------------------------------------------------------
(* Claims about the rows after a load *)

\* a load of frames that ended without error
RowsLoaded == last.op = "load_data" /\ last.outcome = "ok" /\ "input" \in DOMAIN last

\* the input frame of a table, and the input tables that have a column
InputFrame(t) == last.input[IndexOf(TableNames(last.input), t)]
InputTablesWith(c) ==
    {t \in Range(TableNames(last.input)) : c \in Range(InputFrame(t).columns)}
\* the values the input holds in a column, over all tables that have it
InputValues(c) ==
    UNION {{InputFrame(t).rows[i][c] : i \in 1..Len(InputFrame(t).rows)}
           : t \in InputTablesWith(c)}
SharedColumns == {c \in DOMAIN KeyColumn : Cardinality(InputTablesWith(c)) >= 2}

\* C15: after a load there is exactly one link table _link_table_<c> for each
\* column c that two or more input tables have, and none for another column;
\* it holds each distinct value of c exactly once and its _key_<c> values are
\* the integers 1..n, one for each value
C15_LinkTablePerSharedColumn ==
    RowsLoaded =>
        /\ Range(link_tables) = {LinkTableName[c] : c \in SharedColumns}
        /\ Len(link_tables) = Cardinality(SharedColumns)
        /\ \A c \in SharedColumns :
            LET link == rows[LinkTableName[c]]
            IN /\ Cardinality({i \in 1..Len(tables) : tables[i].name = LinkTableName[c]}) = 1
               /\ {link[i][c] : i \in 1..Len(link)} = InputValues(c)
               /\ Len(link) = Cardinality(InputValues(c))
               /\ {link[i][KeyColumn[c]] : i \in 1..Len(link)} = 1..Len(link)

\* two frames of two rows each share the column a and hold two values of it
C15_Witness ==
    /\ RowsLoaded
    /\ Len(last.input) = 2
    /\ \A i \in 1..2 : Len(last.input[i].rows) = 2
    /\ link_tables = <<"_link_table_a">>
    /\ Len(rows["_link_table_a"]) = 2

\* T1 and T2 were loaded and share the column c
SharingRows(c) == RowsLoaded /\ InputTablesWith(c) = {"T1", "T2"}

\* C16: for T1 and T2 sharing c, a row of T1 and a row of T2 carry the same
\* _key_c after the load exactly when they held the same value of c in the
\* input; each frame keeps its rows in place, and every key met in them is
\* the key of exactly one row of the link table, the row of that value: the
\* join through the link table pairs the rows as the input values do
C16_LinkTableRoundTrip ==
    \A c \in DOMAIN KeyColumn :
        SharingRows(c) =>
            LET A == InputFrame("T1").rows
                B == InputFrame("T2").rows
                link == rows[LinkTableName[c]]
                k == KeyColumn[c]
            IN /\ Len(rows["T1"]) = Len(A)
               /\ Len(rows["T2"]) = Len(B)
               /\ \A i \in 1..Len(A) : \A j \in 1..Len(B) :
                     rows["T1"][i][k] = rows["T2"][j][k]  <=>  A[i][c] = B[j][c]
               /\ \A i \in 1..Len(A) :
                     /\ Cardinality({n \in 1..Len(link) : link[n][k] = rows["T1"][i][k]}) = 1
                     /\ \A n \in 1..Len(link) :
                            link[n][k] = rows["T1"][i][k] => link[n][c] = A[i][c]
               /\ \A j \in 1..Len(B) :
                     /\ Cardinality({n \in 1..Len(link) : link[n][k] = rows["T2"][j][k]}) = 1
                     /\ \A n \in 1..Len(link) :
                            link[n][k] = rows["T2"][j][k] => link[n][c] = B[j][c]

\* some rows of T1 and T2 match and some do not
C16_Witness ==
    /\ SharingRows("a")
    /\ \E i, j \in 1..Len(rows["T1"]) : \E n \in 1..Len(rows["T2"]) :
        /\ rows["T1"][i]["_key_a"] = rows["T2"][n]["_key_a"]
        /\ rows["T1"][j]["_key_a"] # rows["T2"][n]["_key_a"]

\* the _index_ columns of a table
IndexColumnsOf(t) == {col \in Range(ColumnsOf(tables, t)) : IsIndexColumn(col)}
\* the table has the one column _index_<t>, holding 0..n-1 row by row
IndexedFromZero(t) ==
    /\ IndexColumnsOf(t) = {IndexColumn[t]}
    /\ \A i \in 1..Len(rows[t]) : rows[t][i][IndexColumn[t]] = i - 1

\* C17: after a load every table of the table set, input table or link
\* table, has exactly one column _index_<table> with the values 0..n-1, non
\* null and unique, and the merge of the link-table keys neither duplicates
\* nor drops an index value
C17_IndexEveryTable ==
    RowsLoaded =>
        /\ \A t \in NonLinkTables :
              IndexedFromZero(t) /\ Len(rows[t]) = Len(InputFrame(t).rows)
        /\ \A i \in 1..Len(link_tables) :
              /\ Cardinality(IndexColumnsOf(link_tables[i])) = 1
              /\ \A col \in IndexColumnsOf(link_tables[i]) :
                    \A n \in 1..Len(rows[link_tables[i]]) :
                        rows[link_tables[i]][n][col] = n - 1

\* C17 as amended: every input table has exactly one column _index_<table>
\* with the values 0..n-1 in row order, as many as the input frame has rows,
\* also after the link-table keys are merged in; a link table has no _index_
\* column, its surrogate is the column _key_<c>
C17_IndexEveryInputTable ==
    RowsLoaded =>
        /\ \A t \in NonLinkTables :
              IndexedFromZero(t) /\ Len(rows[t]) = Len(InputFrame(t).rows)
        /\ \A i \in 1..Len(link_tables) :
              /\ IndexColumnsOf(link_tables[i]) = {}
              /\ \A n \in 1..Len(rows[link_tables[i]]) :
                    \A col \in DOMAIN rows[link_tables[i]][n] : ~IsIndexColumn(col)

\* a frame with a repeated value got the key merged in and kept its two rows
C17_Witness ==
    /\ SharingRows("a")
    /\ Len(rows["T1"]) = 2
    /\ rows["T1"][1]["_key_a"] = rows["T1"][2]["_key_a"]
    /\ rows["T1"][2]["_index_T1"] = 1
    /\ Len(rows["_link_table_a"]) = 2

----------------------------------------------------------------------------
(* Claims about define_metric *)

\* the tables that own the columns, as column_to_table records them
OwningTables(columns) ==
    {t \in Range(TableNames(tables)) :
        \E c \in Range(columns) : c \in DOMAIN column_to_table /\ column_to_table[c] = t}

\* t is a or b, or a and b are connected and every walk between them passes t
OnTheWay(t, a, b) ==
    \/ t \in {a, b}
    \/ /\ b \in ReachableFrom(a)
       /\ b \notin Grow({a}, {pr \in LinkedPairs(relationships) : pr[1] # t /\ pr[2] # t})

\* the tables a trajectory spanning the tables S passes
SpannedTables(S) ==
    {t \in Range(TableNames(tables)) : \E a, b \in S : OnTheWay(t, a, b)}

PairwiseConnected(S) == \A a, b \in S : b \in ReachableFrom(a)

\* C18: define_metric sets columns_indexes to exactly the _index_<t> columns
\* of the non-link tables on the trajectory that spans the tables owning the
\* metric's columns; no link table contributes an entry
C18_ColumnsIndexes ==
    (last.op = "define_metric" /\ ~is_cyclic[1]) =>
        LET m == metric_data[last.name]
        IN m.columns_indexes =
              {IndexColumn[t] : t \in SpannedTables(OwningTables(m.columns)) \ Range(link_tables)}

----------------------------------------------------------------------------
(* Claims about what define_query stores *)

\* define_query has just stored the query last.name
QueryStored == last.op = "define_query" /\ last.outcome = "ok"

\* the names the expressions of the requested, defined computed metrics
\* refer to, and the names HAVING and SORT refer to
ExpressionRefs(p) ==
    UNION {Range(ExtractColumns(computed_metrics[n])) :
              n \in Range(p.computed_metrics) \cap DOMAIN computed_metrics}
ClauseRefs(p) ==
    Range(ExtractColumns(p.having)) \cup {p.sort[i][1] : i \in 1..Len(p.sort)}

NoDuplicate(s) == \A i, j \in 1..Len(s) : i # j => s[i] # s[j]

\* C19: define_query sets hidden_metrics to exactly the defined base metrics
\* that the expression of a requested computed metric, HAVING or SORT refers
\* to and that the explicit metrics do not list, each once; and likewise
\* hidden_computed_metrics, against the explicit computed metrics
C19_HiddenMetrics ==
    QueryStored =>
        LET p == last.params
            d == queries[last.name]
            refs == ExpressionRefs(p) \cup ClauseRefs(p)
        IN /\ Range(d.hidden_metrics) = (refs \cap metrics) \ Range(p.metrics)
           /\ NoDuplicate(d.hidden_metrics)
           /\ Range(d.hidden_metrics) \cap Range(p.metrics) = {}
           /\ Range(d.hidden_computed_metrics)
                 = (refs \cap DOMAIN computed_metrics) \ Range(p.computed_metrics)
           /\ NoDuplicate(d.hidden_computed_metrics)
           /\ Range(d.hidden_computed_metrics) \cap Range(p.computed_metrics) = {}

\* the metric A is referred to twice, by the requested computed metric C and
\* by SORT, and is hidden once
C19_Witness ==
    /\ QueryStored
    /\ last.params.computed_metrics = <<"C">>
    /\ "C" \in DOMAIN computed_metrics
    /\ "A" \in Range(ExtractColumns(computed_metrics["C"]))
    /\ last.params.sort = Asc("A")
    /\ queries[last.name].hidden_metrics = <<"A">>

\* a comes before b in sorted order
SortsBefore(a, b) == IndexOf(SortedTokens, a) < IndexOf(SortedTokens, b)

\* C20: define_query sets missing_column_names to exactly the names, among
\* the explicit metrics, the explicit computed metrics, the columns of the
\* requested defined computed metrics, the HAVING columns and the SORT
\* columns, that are no defined metric, no defined computed metric and no
\* dimension when the query is compiled, in sorted order, each once
C20_MissingColumnNames ==
    QueryStored =>
        LET p == last.params
            d == queries[last.name]
            used == Range(p.metrics) \cup Range(p.computed_metrics)
                        \cup ExpressionRefs(p) \cup ClauseRefs(p)
            known == metrics \cup DOMAIN computed_metrics \cup GetDimensions(tables)
        IN /\ Range(d.missing_column_names) = used \ known
           /\ \A i, j \in 1..Len(d.missing_column_names) :
                 i < j => SortsBefore(d.missing_column_names[i], d.missing_column_names[j])

\* HAVING refers to B and SORT to A, neither is defined: both are missing,
\* while the dimension D named by another query is not
C20_Witness ==
    /\ QueryStored
    /\ queries[last.name].missing_column_names = <<"A", "B">>
    /\ \E q \in DOMAIN queries :
          /\ "D" \in Range(queries[q].having_columns)
          /\ "D" \notin Range(queries[q].missing_column_names)

----------------------------------------------------------------------------
(* Claims about the dependency bookkeeping *)

\* the sources under which the index idx lists the dependent (query, q)
SourcesOf(idx, q) == {e[1] : e \in {x \in idx : x[2] = "query" /\ x[3] = q}}

\* the names the parameters p make a query depend on, in the registries as
\* they are: the explicit metrics and computed metrics, the defined metrics
\* and computed metrics that expressions, HAVING and SORT refer to (hidden or
\* resolved), and the names that are neither defined nor a dimension
ParameterSources(p) ==
    LET refs == ExpressionRefs(p) \cup ClauseRefs(p)
        used == Range(p.metrics) \cup Range(p.computed_metrics) \cup refs
        defined == metrics \cup DOMAIN computed_metrics
    IN Range(p.metrics) \cup Range(p.computed_metrics) \cup (refs \cap defined)
          \cup (used \ (defined \cup GetDimensions(tables)))

DefinitionOps == {"define_metric", "define_computed_metric"}

\* C21: when define_query(Q, p) has stored Q, the sources with an edge to
\* (query, Q) are exactly those of p, whatever Q was registered under before;
\* and a definition made right after, of a name Q was registered under before
\* and is not any more, leaves Q's descriptor and Q's edges as they are.
C21_StaleMembershipsRemoved ==
    /\ [](QueryStored => SourcesOf(dep_index, last.name) = ParameterSources(last.params))
    /\ [][(QueryStored /\ last'.op \in DefinitionOps
            /\ last'.name \in last.sources_before \ SourcesOf(dep_index, last.name))
          => /\ last.name \in DOMAIN queries'
             /\ queries'[last.name] = queries[last.name]
             /\ SourcesOf(dep_index', last.name) = SourcesOf(dep_index, last.name)]_vars

\* Q was registered under a name its new parameters do not refer to, and is
\* registered under another name now
C21_Witness ==
    /\ QueryStored
    /\ last.sources_before \ SourcesOf(dep_index, last.name) # {}
    /\ SourcesOf(dep_index, last.name) \ last.sources_before # {}
    /\ last.name \in DOMAIN queries

\* what define_query stores for the parameters of the stored query d when
\* the metrics are M and the computed metrics CM
RecompiledWith(M, CM, d) == Descriptor(M, CM, GetDimensions(tables), StoredParams(d))

DeletionOps == {"delete_metric", "delete_computed_metric"}

\* the computed-metric registry without the name n, the rest as it is
Without(CM, n) == [m \in DOMAIN CM \ {n} |-> CM[m]]

Absent(Q, idx, q) == q \notin DOMAIN Q /\ SourcesOf(idx, q) = {}

\* C23: when delete_query(Q) has returned, Q is not in the query registry and
\* the dependency index lists (query, Q) under no source; and every call
\* other than define_query leaves absent each query that was absent before
\* it, so no refresh brings a deleted query back.
C23_DeletedQueryStaysAbsent ==
    /\ [](last.op = "delete_query" => Absent(queries, dep_index, last.name))
    /\ [][last'.op # "define_query"
            => \A q \in QueryNames :
                  Absent(queries, dep_index, q) => Absent(queries', dep_index', q)]_vars

\* the deleted query was stored and registered under some names; the other
\* query, registered under one of those names, is still stored
C23_Witness ==
    /\ last.op = "delete_query"
    /\ last.sources_before # {}
    /\ Absent(queries, dep_index, last.name)
    /\ \E r \in DOMAIN queries : SourcesOf(dep_index, r) \cap last.sources_before # {}

\* define_query would raise the cycle error for the parameters of the stored
\* query d, the computed metrics being CM
FailsToCompile(CM, d) == TopoSort(CM, StoredParams(d)).cycle # NoNode

\* C24: a define_metric or define_computed_metric call during which the
\* recompilation of a dependent raised has returned normally with the new
\* definition in its registry, and every stored query whose compilation
\* raises under the new definitions has the descriptor and the edges it had
\* before the call.
C24_FailedRefreshDoesNotBlock ==
    /\ []((last.op \in DefinitionOps /\ last.refresh_failed)
            => /\ last.outcome = "ok"
               /\ last.op = "define_metric" => last.name \in metrics
               /\ last.op = "define_computed_metric"
                      => last.name \in DOMAIN computed_metrics)
    /\ [][(last'.op \in DefinitionOps /\ last'.outcome = "ok")
            => \A q \in DOMAIN queries :
                  FailsToCompile(computed_metrics', queries[q])
                      => /\ q \in DOMAIN queries'
                         /\ queries'[q] = queries[q]
                         /\ SourcesOf(dep_index', q) = SourcesOf(dep_index, q)]_vars

\* the computed metric just defined closes a cycle, the recompilation of a
\* query that requests it was cut short, and the query lists it as it did
C24_Witness ==
    /\ last.op = "define_computed_metric"
    /\ last.refresh_failed
    /\ OnCycle(computed_metrics, last.name)
    /\ \E q \in DOMAIN queries :
          /\ FailsToCompile(computed_metrics, queries[q])
          /\ last.name \in SourcesOf(dep_index, q)

\* the arguments of the define_computed_metric call recorded in c are malformed
Malformed(c) == c.name = "" \/ c.expression = <<>>

\* C25: define_computed_metric raises exactly when its name or its expression
\* is empty, and a call that raises leaves the computed metrics, the metrics,
\* the stored queries and the dependency index as they were: nothing is
\* stored and no dependent is recompiled.
C25_MalformedComputedMetric ==
    /\ [](last.op = "define_computed_metric"
            => (last.outcome = "value_error" <=> Malformed(last)))
    /\ [][(last'.op = "define_computed_metric" /\ Malformed(last'))
            => /\ computed_metrics' = computed_metrics
               /\ metrics' = metrics
               /\ queries' = queries
               /\ dep_index' = dep_index]_vars

\* the call with an empty expression names a computed metric that a stored
\* query requests and still lists as missing
C25_Witness ==
    /\ last.op = "define_computed_metric"
    /\ last.outcome = "value_error"
    /\ last.expression = <<>>
    /\ \E q \in DOMAIN queries :
          /\ last.name \in SourcesOf(dep_index, q)
          /\ last.name \in Range(queries[q].computed_metrics)
          /\ last.name \in Range(queries[q].missing_column_names)

\* C26: in every state reached by definitions alone, each stored query that
\* define_query can compile holds, in hidden_metrics, hidden_computed_metrics,
\* computed_metrics_ordered and missing_column_names, what define_query would
\* store now for the query's stored parameters.
C26_DescriptorsNeverStale ==
    \A q \in DOMAIN queries :
        Compiles(queries[q])
            => LET d == queries[q]
                   now == Recompiled(d)
               IN /\ d.hidden_metrics = now.hidden_metrics
                  /\ d.hidden_computed_metrics = now.hidden_computed_metrics
                  /\ d.computed_metrics_ordered = now.computed_metrics_ordered
                  /\ d.missing_column_names = now.missing_column_names

\* C27: in the descriptor define_query has just stored, every defined metric
\* that the expression of a member of computed_metrics_ordered refers to is in
\* metrics or hidden_metrics, and every defined computed metric such an
\* expression refers to is itself in computed_metrics_ordered.
C27_SelfContainedDescriptor ==
    QueryStored =>
        LET d == queries[last.name]
            ordered == Range(d.computed_metrics_ordered)
        IN \A c \in ordered \cap DOMAIN computed_metrics :
              \A r \in Range(ExtractColumns(computed_metrics[c])) :
                 /\ r \in metrics => r \in Range(d.metrics) \cup Range(d.hidden_metrics)
                 /\ r \in DOMAIN computed_metrics => r \in ordered

\* C28: a define_query call that raises the cycle error leaves the query
\* registry and the dependency index as they were before the call; a
\* descriptor stored under the name before is kept, with its edges.
C28_CycleErrorChangesNothing ==
    [][(last'.op = "define_query" /\ last'.outcome = "cycle_error")
          => /\ queries' = queries
             /\ dep_index' = dep_index
             /\ metrics' = metrics
             /\ computed_metrics' = computed_metrics]_vars

\* the call that raised gave other parameters for a query that is stored and
\* registered under some names
C28_Witness ==
    /\ last.op = "define_query"
    /\ last.outcome = "cycle_error"
    /\ last.name \in DOMAIN queries
    /\ StoredParams(queries[last.name]) # last.params
    /\ last.sources_before # {}
    /\ SourcesOf(dep_index, last.name) = last.sources_before

\* the names a stored descriptor lists as metrics, computed metrics, hidden
\* metrics, hidden computed metrics and missing names
NamesOf(d) ==
    Range(d.metrics) \cup Range(d.computed_metrics) \cup Range(d.hidden_metrics)
        \cup Range(d.hidden_computed_metrics) \cup Range(d.missing_column_names)

\* C29: in every state reached by definitions and deletions, the dependency
\* index lists (query, Q) under each name the stored descriptor of Q lists as
\* a metric, a computed metric, a hidden metric, a hidden computed metric or a
\* missing name, and every (query, X) the index lists is a stored query.
C29_RegistryAndIndexConsistent ==
    /\ \A q \in DOMAIN queries :
          \A n \in NamesOf(queries[q]) : <<n, "query", q>> \in dep_index
    /\ \A e \in dep_index : e[2] = "query" => e[3] \in DOMAIN queries

\* a query was deleted while the other one, stored with a hidden metric and a
\* missing name, stays registered under both
C29_Witness ==
    /\ last.op = "delete_query"
    /\ last.sources_before # {}
    /\ \E q \in DOMAIN queries :
          /\ queries[q].hidden_metrics # <<>>
          /\ queries[q].missing_column_names # <<>>
          /\ NamesOf(queries[q]) \subseteq SourcesOf(dep_index, q)

----------------------------------------------------------------------------
(* Claims about load_data and the definitions *)

NothingDefined ==
    metrics = {} /\ computed_metrics = EmptyMap /\ queries = EmptyMap /\ dep_index = {}

\* C30: load_data(reset_all=True) leaves the metrics, the computed metrics,
\* the queries and the dependency index empty, so a definition made right
\* after it finds no query to recompile; load_data(reset_all=False) leaves the
\* four as they were before the call.
C30_ResetAllClearsDefinitions ==
    /\ []((last.op = "load_data" /\ last.reset_all) => NothingDefined)
    /\ [][(last'.op = "load_data" /\ ~last'.reset_all)
            => /\ metrics' = metrics
               /\ computed_metrics' = computed_metrics
               /\ queries' = queries
               /\ dep_index' = dep_index]_vars
    /\ [][(last.op = "load_data" /\ last.reset_all /\ last'.op \in DefinitionOps)
            => queries' = EmptyMap /\ dep_index' = {}]_vars

\* the reset was made on a cube that held a metric, a query registered under
\* it and a computed metric
C30_Witness ==
    /\ last.op = "load_data"
    /\ last.reset_all
    /\ last.before.metrics # {}
    /\ last.before.computed_metrics # {}
    /\ \E e \in last.before.edges : e[1] \in last.before.metrics /\ e[3] \in last.before.queries
    /\ NothingDefined

====
